---------------------------- MODULE Spec2Model ----------------------------
(***************************************************************************)
(* Secret Store key server: the wire codec of the cluster transport        *)
(* (secret_store/src/key_server_cluster/io/message.rs), the link key       *)
(* derivation, and the key-server facade                                   *)
(* (secret_store/src/key_server.rs).                                       *)
(*                                                                         *)
(* A byte vector (Vec<u8>) is kept run-length encoded: a sequence of runs  *)
(* <<byte, count>> with positive counts and different bytes in adjacent    *)
(* runs, so that equal vectors are equal values and a frame of 65536 bytes *)
(* is as cheap as one of 6.                                                *)
(*                                                                         *)
(* The curve is scaled down to the subgroup of prime order curve_order of  *)
(* the multiplicative group modulo field_prime: a point is a group         *)
(* element, point addition is multiplication modulo field_prime and scalar *)
(* multiplication is exponentiation.  The field is larger than the group   *)
(* order, as for secp256k1, so a coordinate need not be a valid scalar.    *)
(***************************************************************************)
EXTENDS Integers, Sequences, FiniteSets, TLC

\* ------------------------------------------------------------------------
\* Bounds of the model.

\* Payload fields hold hex digits 0..MaxNibble.
MaxNibble == 1
\* Short payloads have up to MaxFields hex digits.
MaxFields == 2
\* Frames of a foreign peer carry versions 0..MaxVersion.
MaxVersion == 2
\* ECIES ephemeral secrets are drawn from 1..MaxEphemeral.
MaxEphemeral == 2
\* Documents are 1..MaxDocument.
MaxDocument == 2
\* The client's secret is one of 1..MaxRequestor.
MaxRequestor == 1
\* Polynomial coefficients are drawn from 1..MaxCoefficient.
MaxCoefficient == 1
\* The id numbers are one of MaxShift + 1 assignments.
MaxShift == 0
\* The other scalars a session or the facade draws are from 1..MaxDraw.
MaxDraw == 1
\* Client threads that call one key server at the same time: 1..MaxThread.
MaxThread == 2
\* ------------------------------------------------------------------------
\* Results and errors (Result<T, Error> of key_server_cluster).

NoError == [kind |-> "", text |-> <<>>]
Ok(v) == [ok |-> TRUE, val |-> v, err |-> NoError]
Err(kind, text) == [ok |-> FALSE, val |-> <<>>, err |-> [kind |-> kind, text |-> text]]
\* No result yet.
Nothing == Err("Nothing", <<>>)

InvalidMessage == Err("InvalidMessage", <<>>)
SerdeError(text) == Err("Serde", text)
IoError == Err("Io", <<"failed to fill whole buffer">>)
EthKeyError(text) == Err("EthKey", text)

\* ------------------------------------------------------------------------
\* Integer widths.

U8_MAX == 255
U16_MAX == 65535
AsU16(n) == n % (U16_MAX + 1)

\* Size of serialized header.
MESSAGE_HEADER_SIZE == 4

MessageHeader(version, kind, size) == [version |-> version, kind |-> kind, size |-> size]

\* ------------------------------------------------------------------------
\* Byte vectors, run-length encoded.

RECURSIVE Norm(_)
Norm(runs) ==
    IF runs = <<>> THEN <<>>
    ELSE IF runs[1][2] = 0 THEN Norm(Tail(runs))
    ELSE LET rest == Norm(Tail(runs)) IN
         IF rest # <<>> /\ rest[1][1] = runs[1][1]
         THEN <<(<<runs[1][1], runs[1][2] + rest[1][2]>>)>> \o Tail(rest)
         ELSE <<runs[1]>> \o rest
\* The vector of a sequence of bytes, and n times the byte b.
VecOf(seq) == Norm([i \in 1..Len(seq) |-> <<seq[i], 1>>])
VecRepeat(b, n) == Norm(<<(<<b, n>>)>>)
RECURSIVE VecLen(_)
VecLen(v) == IF v = <<>> THEN 0 ELSE v[1][2] + VecLen(Tail(v))
VecConcat(a, b) == Norm(a \o b)
\* The i-th byte, from 1.
RECURSIVE VecAt(_, _)
VecAt(v, i) == IF i <= v[1][2] THEN v[1][1] ELSE VecAt(Tail(v), i - v[1][2])
\* The first k bytes, and what follows them.
RECURSIVE VecTake(_, _)
VecTake(v, k) ==
    IF k <= 0 \/ v = <<>> THEN <<>>
    ELSE IF v[1][2] >= k THEN <<(<<v[1][1], k>>)>>
    ELSE <<v[1]>> \o VecTake(Tail(v), k - v[1][2])
RECURSIVE VecDrop(_, _)
VecDrop(v, k) ==
    IF v = <<>> THEN <<>>
    ELSE IF k <= 0 THEN v
    ELSE IF v[1][2] > k THEN <<(<<v[1][1], v[1][2] - k>>)>> \o Tail(v)
    ELSE VecDrop(Tail(v), k - v[1][2])
VecMap(F(_), v) == Norm([i \in 1..Len(v) |-> <<F(v[i][1]), v[i][2]>>])
VecAll(P(_), v) == \A i \in 1..Len(v) : P(v[i][1])

RECURSIVE PowMod(_, _, _)
PowMod(b, e, m) == IF e = 0 THEN 1 % m ELSE (b * PowMod(b, e - 1, m)) % m

\* ------------------------------------------------------------------------
\* The scaled-down curve.

curve_order == 5
field_prime == 11
generator == 4

\* The points of the group (the identity, 1, is the point at infinity).
Points == {PowMod(generator, e, field_prime) : e \in 0..(curve_order - 1)}
Infinity == PowMod(generator, 0, field_prime)
PointAdd(a, b) == (a * b) % field_prime
ScalarMul(k, point) == PowMod(point, k % curve_order, field_prime)
PointNeg(point) == PowMod(point, curve_order - 1, field_prime)
\* Inverse of a non-zero scalar modulo the (prime) group order.
ScalarInv(k) == PowMod(k % curve_order, curve_order - 2, curve_order)

\* ethkey: a secret is valid when it lies in [1, curve_order).
Secrets == 1..(curve_order - 1)
KeyPair_from_secret_slice(secret) ==
    IF secret \in Secrets
    THEN Ok([secret |-> secret, public |-> ScalarMul(secret, generator)])
    ELSE EthKeyError(<<"InvalidSecret">>)

\* ethcrypto::ecdh::agree: the coordinate of other_public * self_secret, not
\* reduced modulo the group order.
agree(self_secret, other_public) ==
    IF self_secret \in Secrets /\ other_public \in Points \ {Infinity}
    THEN Ok(ScalarMul(self_secret, other_public))
    ELSE EthKeyError(<<"Secp">>)

\* ethcrypto::ecies::encrypt_single_message, with the ephemeral secret r it
\* draws: the ephemeral public, the masked bytes, the authentication tag.
EciesTag(shared, len) == (shared * 7 + len) % (U8_MAX + 1)
encrypt_single_message(public, plain, r) ==
    IF public \notin Points \ {Infinity}
    THEN EthKeyError(<<"InvalidPublic">>)
    ELSE LET shared == ScalarMul(r, public)
             Mask(b) == (b + shared) % (U8_MAX + 1)
         IN  Ok(VecConcat(VecConcat(VecOf(<<ScalarMul(r, generator)>>), VecMap(Mask, plain)),
                          VecOf(<<EciesTag(shared, VecLen(plain))>>)))

\* ethcrypto::ecies::decrypt_single_message.
decrypt_single_message(secret, encrypted) ==
    LET n == VecLen(encrypted) - 2 IN
    IF n < 0 \/ secret \notin Secrets
    THEN EthKeyError(<<"InvalidMessage">>)
    ELSE IF VecAt(encrypted, 1) \notin Points \ {Infinity}
    THEN EthKeyError(<<"InvalidPublic">>)
    ELSE LET shared == ScalarMul(secret, VecAt(encrypted, 1))
             Unmask(b) == (b + (U8_MAX + 1) - shared) % (U8_MAX + 1)
         IN  IF VecAt(encrypted, n + 2) # EciesTag(shared, n)
             THEN EthKeyError(<<"InvalidMessage">>)
             ELSE Ok(VecMap(Unmask, VecTake(VecDrop(encrypted, 1), n)))

\* ------------------------------------------------------------------------
\* Messages.

ClusterVariants == <<"NodePublicKey", "NodePrivateKeySignature", "KeepAlive", "KeepAliveResponse">>
EncryptionVariants == <<"InitializeSession", "ConfirmInitialization", "CompleteInitialization",
                        "KeysDissemination", "Complaint", "ComplaintResponse", "PublicKeyShare",
                        "SessionError", "SessionCompleted">>
DecryptionVariants == <<"InitializeDecryptionSession", "ConfirmDecryptionInitialization",
                        "RequestPartialDecryption", "PartialDecryption", "DecryptionSessionError">>

Range(s) == {s[i] : i \in 1..Len(s)}
FamilyVariants(family) ==
    CASE family = "Cluster" -> Range(ClusterVariants)
      [] family = "Encryption" -> Range(EncryptionVariants)
      [] family = "Decryption" -> Range(DecryptionVariants)
Families == {"Cluster", "Encryption", "Decryption"}

Message(family, variant, payload) == [family |-> family, variant |-> variant, payload |-> payload]

\* serde_json::to_vec of a payload: the payload's hex digits as a JSON string.
Quote == CHOOSE b \in {34} : TRUE
ToHexChar(v) == IF v < 10 THEN 48 + v ELSE 87 + v
IsHexChar(b) == (b >= 48 /\ b <= 57) \/ (b >= 97 /\ b <= 102)
FromHexChar(b) == IF b <= 57 THEN b - 48 ELSE b - 87
to_vec(payload) ==
    Ok(VecConcat(VecConcat(VecOf(<<Quote>>), VecMap(ToHexChar, payload)), VecOf(<<Quote>>)))

\* serde_json::from_slice.
from_slice(bytes) ==
    LET n == VecLen(bytes) - 2 IN
    IF n < 0
    THEN SerdeError(<<"EOF while parsing a value">>)
    ELSE IF VecAt(bytes, 1) # Quote \/ VecAt(bytes, n + 2) # Quote
    THEN SerdeError(<<"expected value">>)
    ELSE LET digits == VecTake(VecDrop(bytes, 1), n) IN
         IF ~VecAll(IsHexChar, digits)
         THEN SerdeError(<<"invalid value">>)
         ELSE Ok(VecMap(FromHexChar, digits))

\* ------------------------------------------------------------------------
\* message.rs

\* Serialize message header.
serialize_header_big_endian(header) ==
    Ok(VecOf(<<header.version, header.kind, header.size \div (U8_MAX + 1), header.size % (U8_MAX + 1)>>))
serialize_header(header) ==
    Ok(VecOf(<<header.version, header.kind, header.size % (U8_MAX + 1), header.size \div (U8_MAX + 1)>>))

\* Deserialize message header.
deserialize_header_checking_version(data) ==
    IF VecLen(data) < MESSAGE_HEADER_SIZE
    THEN IoError
    ELSE IF VecAt(data, 1) # 1
    THEN InvalidMessage
    ELSE Ok(MessageHeader(VecAt(data, 1), VecAt(data, 2), VecAt(data, 3) + (U8_MAX + 1) * VecAt(data, 4)))
deserialize_header(data) ==
    IF VecLen(data) < MESSAGE_HEADER_SIZE
    THEN IoError
    ELSE Ok(MessageHeader(VecAt(data, 1), VecAt(data, 2), VecAt(data, 3) + (U8_MAX + 1) * VecAt(data, 4)))

\* Build serialized message from header && payload
build_serialized_message_unsized(header, payload) ==
    IF VecLen(payload) > U16_MAX
    THEN InvalidMessage
    ELSE LET message == serialize_header(header)
         IN  IF message.ok THEN Ok(VecConcat(message.val, payload)) ELSE message
build_serialized_message_unchecked(header, payload) ==
    LET sized == [header EXCEPT !.size = AsU16(VecLen(payload))]
        message == serialize_header(sized)
    IN  IF message.ok THEN Ok(VecConcat(message.val, payload)) ELSE message
build_serialized_message(header, payload) ==
    LET payload_len == VecLen(payload) IN
    IF payload_len > U16_MAX
    THEN InvalidMessage
    ELSE LET sized == [header EXCEPT !.size = AsU16(payload_len)]
             message == serialize_header(sized)
         IN  IF message.ok THEN Ok(VecConcat(message.val, payload)) ELSE message

\* The wire number serialize_message writes for a message.
message_kind(message) ==
    CASE message.family = "Cluster" /\ message.variant = "NodePublicKey" -> 1
      [] message.family = "Cluster" /\ message.variant = "NodePrivateKeySignature" -> 2
      [] message.family = "Cluster" /\ message.variant = "KeepAlive" -> 3
      [] message.family = "Cluster" /\ message.variant = "KeepAliveResponse" -> 4
      [] message.family = "Encryption" /\ message.variant = "InitializeSession" -> 50
      [] message.family = "Encryption" /\ message.variant = "ConfirmInitialization" -> 51
      [] message.family = "Encryption" /\ message.variant = "CompleteInitialization" -> 52
      [] message.family = "Encryption" /\ message.variant = "KeysDissemination" -> 53
      [] message.family = "Encryption" /\ message.variant = "Complaint" -> 54
      [] message.family = "Encryption" /\ message.variant = "ComplaintResponse" -> 55
      [] message.family = "Encryption" /\ message.variant = "PublicKeyShare" -> 56
      [] message.family = "Encryption" /\ message.variant = "SessionError" -> 57
      [] message.family = "Encryption" /\ message.variant = "SessionCompleted" -> 58
      [] message.family = "Decryption" /\ message.variant = "InitializeDecryptionSession" -> 100
      [] message.family = "Decryption" /\ message.variant = "ConfirmDecryptionInitialization" -> 101
      [] message.family = "Decryption" /\ message.variant = "RequestPartialDecryption" -> 102
      [] message.family = "Decryption" /\ message.variant = "PartialDecryption" -> 103
      [] message.family = "Decryption" /\ message.variant = "DecryptionSessionError" -> 104

\* Serialize message.
serialize_message_complaint_as_response(message) ==
    LET payload == to_vec(message.payload)
        kind == IF message.variant = "Complaint" THEN 55 ELSE message_kind(message)
    IN  IF ~payload.ok
        THEN SerdeError(payload.err.text)
        ELSE build_serialized_message(MessageHeader(1, kind, 0), payload.val)
serialize_message(message) ==
    LET payload == to_vec(message.payload) IN
    IF ~payload.ok
    THEN SerdeError(payload.err.text)
    ELSE build_serialized_message(MessageHeader(1, message_kind(message), 0), payload.val)

\* The variant deserialize_message builds for a wire number.
DeserializedAs(family, variant, payload) ==
    LET parsed == from_slice(payload) IN
    IF parsed.ok THEN Ok(Message(family, variant, parsed.val)) ELSE SerdeError(parsed.err.text)

\* The error for a wire number outside the table.
unknown_message_type_as_invalid_message(header) == InvalidMessage
unknown_message_type(header) == SerdeError(<<"unknown message type", header.kind>>)

\* Deserialize message.
deserialize_message(header, payload) ==
    CASE header.kind = 1 -> DeserializedAs("Cluster", "NodePublicKey", payload)
      [] header.kind = 2 -> DeserializedAs("Cluster", "NodePrivateKeySignature", payload)
      [] header.kind = 3 -> DeserializedAs("Cluster", "KeepAlive", payload)
      [] header.kind = 4 -> DeserializedAs("Cluster", "KeepAliveResponse", payload)
      [] header.kind = 50 -> DeserializedAs("Encryption", "InitializeSession", payload)
      [] header.kind = 51 -> DeserializedAs("Encryption", "ConfirmInitialization", payload)
      [] header.kind = 52 -> DeserializedAs("Encryption", "CompleteInitialization", payload)
      [] header.kind = 53 -> DeserializedAs("Encryption", "KeysDissemination", payload)
      [] header.kind = 54 -> DeserializedAs("Encryption", "Complaint", payload)
      [] header.kind = 55 -> DeserializedAs("Encryption", "ComplaintResponse", payload)
      [] header.kind = 56 -> DeserializedAs("Encryption", "PublicKeyShare", payload)
      [] header.kind = 57 -> DeserializedAs("Encryption", "SessionError", payload)
      [] header.kind = 58 -> DeserializedAs("Encryption", "SessionCompleted", payload)
      [] header.kind = 100 -> DeserializedAs("Decryption", "InitializeDecryptionSession", payload)
      [] header.kind = 101 -> DeserializedAs("Decryption", "ConfirmDecryptionInitialization", payload)
      [] header.kind = 102 -> DeserializedAs("Decryption", "RequestPartialDecryption", payload)
      [] header.kind = 103 -> DeserializedAs("Decryption", "PartialDecryption", payload)
      [] header.kind = 104 -> DeserializedAs("Decryption", "DecryptionSessionError", payload)
      [] OTHER -> unknown_message_type(header)

\* The bytes of a frame after its header (Vec::split_off).
split_off(bytes, at) == VecDrop(bytes, at)

\* Encrypt serialized message; r is the ephemeral secret ECIES draws.
encrypt_message_whole_frame(key, message, r) ==
    LET header == VecTake(message, MESSAGE_HEADER_SIZE)
        encrypted_payload == encrypt_single_message(key.public, message, r)
    IN  IF ~encrypted_payload.ok
        THEN EthKeyError(encrypted_payload.err.text)
        ELSE LET parsed == deserialize_header(header) IN
             IF ~parsed.ok THEN parsed
             ELSE build_serialized_message(parsed.val, encrypted_payload.val)
\* encrypt_message re-emitting the header as it was, size included.
encrypt_message_keeping_size(key, message, r) ==
    LET header == VecTake(message, MESSAGE_HEADER_SIZE)
        payload == split_off(message, MESSAGE_HEADER_SIZE)
        encrypted_payload == encrypt_single_message(key.public, payload, r)
    IN  IF ~encrypted_payload.ok
        THEN EthKeyError(encrypted_payload.err.text)
        ELSE IF VecLen(encrypted_payload.val) > U16_MAX THEN InvalidMessage
        ELSE Ok(VecConcat(header, encrypted_payload.val))
\* encrypt_message that does not check the length of the ciphertext.
encrypt_message_unchecked(key, message, r) ==
    LET header == VecTake(message, MESSAGE_HEADER_SIZE)
        payload == split_off(message, MESSAGE_HEADER_SIZE)
        encrypted_payload == encrypt_single_message(key.public, payload, r)
    IN  IF ~encrypted_payload.ok
        THEN EthKeyError(encrypted_payload.err.text)
        ELSE LET parsed == deserialize_header(header) IN
             IF ~parsed.ok THEN parsed
             ELSE build_serialized_message_unchecked(parsed.val, encrypted_payload.val)
encrypt_message(key, message, r) ==
    LET header == VecTake(message, MESSAGE_HEADER_SIZE)
        payload == split_off(message, MESSAGE_HEADER_SIZE)
        encrypted_payload == encrypt_single_message(key.public, payload, r)
    IN  IF ~encrypted_payload.ok
        THEN EthKeyError(encrypted_payload.err.text)
        ELSE LET parsed == deserialize_header(header) IN
             IF ~parsed.ok THEN parsed
             ELSE build_serialized_message(parsed.val, encrypted_payload.val)

\* Decrypt serialized message.
decrypt_message(key, payload) ==
    LET decrypted == decrypt_single_message(key.secret, payload) IN
    IF decrypted.ok THEN decrypted ELSE EthKeyError(decrypted.err.text)

\* Compute shared encryption key.
compute_shared_key_unreduced(self_secret, other_public) ==
    LET shared_secret == agree(self_secret, other_public) IN
    IF ~shared_secret.ok
    THEN EthKeyError(shared_secret.err.text)
    ELSE KeyPair_from_secret_slice(shared_secret.val)
\* A key derived from the node's own key pair alone.
compute_shared_key_of_own_pair(self_secret, other_public) ==
    LET own == KeyPair_from_secret_slice(self_secret)
        shared_secret == IF own.ok THEN agree(self_secret, own.val.public) ELSE own
    IN  IF ~shared_secret.ok
        THEN EthKeyError(shared_secret.err.text)
        ELSE KeyPair_from_secret_slice(shared_secret.val % curve_order)
compute_shared_key(self_secret, other_public) ==
    LET shared_secret == agree(self_secret, other_public) IN
    IF ~shared_secret.ok
    THEN EthKeyError(shared_secret.err.text)
    ELSE KeyPair_from_secret_slice(shared_secret.val % curve_order)

\* ------------------------------------------------------------------------
\* One end of a link: the key agreement of the handshake, then frames
\* written and read in cleartext (before the link key exists) or encrypted.

VARIABLES
    pc,              \* where this end of the link stands
    self_secret,     \* the node's long-term secret
    other_public,    \* the peer's public key, Nothing before the handshake
    shared_key,      \* compute_shared_key's result
    message,         \* the message being sent
    serialized,      \* serialize_message's result
    encrypted,       \* encrypt_message's result
    wire,            \* the frame in flight and whether it is encrypted
    received_header, \* deserialize_header's result at the reader
    decrypted,       \* decrypt_message's result at the reader
    deserialized,    \* deserialize_message's result at the reader
    header_in,       \* a header handed to serialize_header
    header_bytes     \* serialize_header's result

linkVars == <<pc, self_secret, other_public, shared_key, message, serialized, encrypted,
              wire, received_header, decrypted, deserialized, header_in, header_bytes>>

\* The key server facade, its client and the cluster behind it.
VARIABLES
    requestor_secret, \* the client's secret
    signature,        \* the request signature the client holds
    ks_pc,            \* where the facade call in progress stands
    call,             \* the facade call in progress: operation, node, arguments
    recovered_public, \* the requestor public the facade recovered
    session,          \* the cluster session the call waits for
    key_storage,      \* per node and document: the DocumentKeyShare, if any
    returned,         \* the last call that returned, with its result
    generated,        \* the generated key as the client decrypted it, and what it is for
    sessions_created, \* sessions created since the call started
    messages_sent,    \* messages sent to peers since the call started
    acl_storage,      \* the requestors the ACL prohibits, per document
    sessions,         \* the live sessions of the nodes' session managers
    second_returned   \* what a second caller's request for a session returned

facadeVars == <<requestor_secret, signature, ks_pc, call, recovered_public, session,
                key_storage,
                returned, generated, sessions_created, messages_sent, acl_storage, sessions,
                second_returned>>

\* Threads of a client that call one KeyServerImpl at the same time.
VARIABLES
    mutex,           \* the thread that holds the lock on KeyServerImpl::data, or unlocked
    thread_pc,       \* per thread: where its facade call stands
    thread_call,     \* per thread: the operation it calls and the document
    thread_returned, \* per thread: what its last call returned
    live_sessions    \* the sessions the node's session manager holds

threadVars == <<mutex, thread_pc, thread_call, thread_returned, live_sessions>>

\* The key server cores of the nodes and their event loop threads.
VARIABLES
    core_pc,       \* per node: where KeyServerCore::new, the core and its drop stand
    loop_pc,       \* per node: where the event loop thread stands
    init_channel,  \* per node: what the thread sent through tx, if anything
    stop_signal,   \* per node: the one-shot stop handle and the signals sent on it
    join_handle    \* per node: the thread's JoinHandle

coreVars == <<core_pc, loop_pc, init_channel, stop_signal, join_handle>>

\* One session of the cluster as its participants' state machines.
VARIABLES
    session_config,    \* its kind, its initiator and its participants
    session_state,     \* per node: the state of its local session
    session_error,     \* per node: the error its session ended with, if any
    session_received,  \* per node: whose message of the current step is in
    network,           \* messages in flight
    sent_messages,     \* every message a session has put on the network
    too_early,         \* per node: messages rescheduled for later processing
    faults,            \* the errors and stale messages that have struck the session
    caller             \* the facade call blocked on the initiator's session

sessionVars == <<session_config, session_state, session_error, session_received, network,
                 sent_messages, too_early, faults, caller>>

\* The connections between the nodes of the cluster.
VARIABLES
    allow_connecting_to_higher_nodes,  \* ClusterConfiguration, the same on every node
    dials,                             \* <<dialer, accepter>>: handshakes in progress
    connections,                       \* <<dialer, accepter>>: established connections
    dial_failures                      \* handshakes that have failed so far

connectionVars == <<allow_connecting_to_higher_nodes, dials, connections, dial_failures>>

\* The variables outside the link and outside the one-call facade.
restVars == <<threadVars, coreVars, sessionVars, connectionVars>>

vars == <<linkVars, facadeVars, restVars>>

ThreadsUnused ==
    /\ mutex = Nothing
    /\ thread_pc = Nothing
    /\ thread_call = Nothing
    /\ thread_returned = Nothing
    /\ live_sessions = Nothing

CoresUnused ==
    /\ core_pc = Nothing
    /\ loop_pc = Nothing
    /\ init_channel = Nothing
    /\ stop_signal = Nothing
    /\ join_handle = Nothing

SessionsUnused ==
    /\ session_config = Nothing
    /\ session_state = Nothing
    /\ session_error = Nothing
    /\ session_received = Nothing
    /\ network = Nothing
    /\ sent_messages = Nothing
    /\ too_early = Nothing
    /\ faults = Nothing
    /\ caller = Nothing

ConnectionsUnused ==
    /\ allow_connecting_to_higher_nodes = Nothing
    /\ dials = Nothing
    /\ connections = Nothing
    /\ dial_failures = Nothing

RestUnused == ThreadsUnused /\ CoresUnused /\ SessionsUnused /\ ConnectionsUnused

\* The facade is not part of the behaviours of one end of a link.
FacadeUnused ==
    /\ requestor_secret = Nothing
    /\ signature = Nothing
    /\ ks_pc = "unused"
    /\ call = Nothing
    /\ recovered_public = Nothing
    /\ session = Nothing
    /\ key_storage = Nothing
    /\ returned = Nothing
    /\ generated = Nothing
    /\ sessions_created = 0
    /\ messages_sent = 0
    /\ acl_storage = Nothing
    /\ sessions = Nothing
    /\ second_returned = Nothing

\* Payloads: the short ones, and the long ones around the frame size limit.
RECURSIVE SeqsUpTo(_, _)
SeqsUpTo(S, n) ==
    IF n = 0 THEN {<<>>}
    ELSE LET shorter == SeqsUpTo(S, n - 1) IN
         shorter \cup {Append(s, x) : s \in {t \in shorter : Len(t) = n - 1}, x \in S}
ShortPayloads == {VecOf(s) : s \in SeqsUpTo(0..MaxNibble, MaxFields)}
\* JSON of U16_MAX - 3 up to U16_MAX + 1 bytes, but for U16_MAX - 1.
LongPayloadLens == {U16_MAX - 5, U16_MAX - 4, U16_MAX - 3, U16_MAX - 2, U16_MAX - 1}
LongPayloads == {VecRepeat(b, n) : b \in 0..MaxNibble, n \in LongPayloadLens}

MessagesOf(payloads, variants) ==
    UNION {{Message(f, v, p) : v \in FamilyVariants(f) \cap variants, p \in payloads} : f \in Families}
AllVariants == Range(ClusterVariants) \cup Range(EncryptionVariants) \cup Range(DecryptionVariants)
SentMessages == MessagesOf(ShortPayloads \cup LongPayloads, AllVariants)

\* What a foreign peer may put on the wire: any version, any kind, payloads
\* that are JSON and payloads that are not.
ForeignVersions == 0..MaxVersion \cup {U8_MAX}
ForeignKinds == 0..U8_MAX
ForeignPayloads == {to_vec(VecOf(p)).val : p \in SeqsUpTo(0..MaxNibble, 1)}
                       \cup {VecOf(<<>>), VecOf(<<0>>), VecOf(<<Quote, 0, Quote>>)}
HeaderSizes == {0, 1, U8_MAX, U8_MAX + 1, U8_MAX + 2, U16_MAX - 1, U16_MAX}
PeerPublics == Points \cup {0}

Init ==
    /\ pc = "start"
    /\ self_secret \in Secrets
    /\ other_public = Nothing
    /\ shared_key = Nothing
    /\ message = Nothing
    /\ serialized = Nothing
    /\ encrypted = Nothing
    /\ wire = Nothing
    /\ received_header = Nothing
    /\ decrypted = Nothing
    /\ deserialized = Nothing
    /\ header_in = Nothing
    /\ header_bytes = Nothing
    /\ FacadeUnused
    /\ RestUnused

\* The handshake learns the peer's public key and derives the link key.
ComputeSharedKey ==
    /\ pc = "start"
    /\ \E public \in PeerPublics :
        /\ other_public' = Ok(public)
        /\ shared_key' = compute_shared_key(self_secret, public)
    /\ pc' = "linked"
    /\ UNCHANGED <<self_secret, message, serialized, encrypted, wire, received_header,
                   decrypted, deserialized, header_in, header_bytes>>
    /\ UNCHANGED <<facadeVars, restVars>>

\* A message is serialized: for a cleartext frame before the link key
\* exists, for an encrypted one after.
SerializeMessage ==
    /\ pc \in {"start", "linked"}
    /\ pc = "linked" => shared_key.ok
    /\ \E m \in SentMessages :
        /\ message' = Ok(m)
        /\ serialized' = serialize_message(m)
    /\ pc' = IF ~serialized'.ok THEN "done" ELSE IF pc = "start" THEN "clear" ELSE "to_encrypt"
    /\ UNCHANGED <<self_secret, other_public, shared_key, encrypted, wire, received_header,
                   decrypted, deserialized, header_in, header_bytes>>
    /\ UNCHANGED <<facadeVars, restVars>>

\* The cleartext frame is written.
WriteMessage ==
    /\ pc = "clear"
    /\ wire' = Ok([bytes |-> serialized.val, encrypted |-> FALSE])
    /\ pc' = "wire"
    /\ UNCHANGED <<self_secret, other_public, shared_key, message, serialized, encrypted,
                   received_header, decrypted, deserialized, header_in, header_bytes>>
    /\ UNCHANGED <<facadeVars, restVars>>

\* The frame is encrypted under the link key and written.
WriteEncryptedMessage ==
    /\ pc = "to_encrypt"
    /\ \E r \in 1..MaxEphemeral :
        encrypted' = encrypt_message(shared_key.val, serialized.val, r)
    /\ IF encrypted'.ok
       THEN wire' = Ok([bytes |-> encrypted'.val, encrypted |-> TRUE]) /\ pc' = "wire"
       ELSE wire' = wire /\ pc' = "done"
    /\ UNCHANGED <<self_secret, other_public, shared_key, message, serialized,
                   received_header, decrypted, deserialized, header_in, header_bytes>>
    /\ UNCHANGED <<facadeVars, restVars>>

\* A frame of a foreign peer arrives in cleartext.
ForeignFrame ==
    /\ pc = "start"
    /\ \E version \in ForeignVersions, kind \in ForeignKinds, payload \in ForeignPayloads :
        wire' = Ok([bytes |-> VecConcat(serialize_header(MessageHeader(version, kind, VecLen(payload))).val,
                                        payload),
                    encrypted |-> FALSE])
    /\ pc' = "wire"
    /\ UNCHANGED <<self_secret, other_public, shared_key, message, serialized, encrypted,
                   received_header, decrypted, deserialized, header_in, header_bytes>>
    /\ UNCHANGED <<facadeVars, restVars>>

\* The reader takes the header off the wire.
ReadHeader ==
    /\ pc = "wire"
    /\ received_header' = deserialize_header(VecTake(wire.val.bytes, MESSAGE_HEADER_SIZE))
    /\ pc' = IF received_header'.ok THEN "header_read" ELSE "done"
    /\ UNCHANGED <<self_secret, other_public, shared_key, message, serialized, encrypted, wire,
                   decrypted, deserialized, header_in, header_bytes>>
    /\ UNCHANGED <<facadeVars, restVars>>

\* The reader takes the payload the header announces and decodes it.
ReadPayload ==
    /\ pc = "header_read"
    /\ ~wire.val.encrypted
    /\ deserialized' = deserialize_message(received_header.val,
                           VecTake(VecDrop(wire.val.bytes, MESSAGE_HEADER_SIZE),
                                   received_header.val.size))
    /\ pc' = "done"
    /\ UNCHANGED <<self_secret, other_public, shared_key, message, serialized, encrypted, wire,
                   received_header, decrypted, header_in, header_bytes>>
    /\ UNCHANGED <<facadeVars, restVars>>

\* The reader takes the encrypted payload, decrypts it and decodes it.
ReadEncryptedPayload ==
    /\ pc = "header_read"
    /\ wire.val.encrypted
    /\ decrypted' = decrypt_message(shared_key.val,
                        VecTake(VecDrop(wire.val.bytes, MESSAGE_HEADER_SIZE),
                                received_header.val.size))
    /\ deserialized' = IF decrypted'.ok
                       THEN deserialize_message(received_header.val, decrypted'.val)
                       ELSE decrypted'
    /\ pc' = "done"
    /\ UNCHANGED <<self_secret, other_public, shared_key, message, serialized, encrypted, wire,
                   received_header, header_in, header_bytes>>
    /\ UNCHANGED <<facadeVars, restVars>>

\* A header is written on its own.
SerializeHeader ==
    /\ pc = "start"
    /\ \E version \in ForeignVersions, kind \in ForeignKinds, size \in HeaderSizes :
        /\ header_in' = Ok(MessageHeader(version, kind, size))
        /\ header_bytes' = serialize_header(MessageHeader(version, kind, size))
    /\ pc' = "header_written"
    /\ UNCHANGED <<self_secret, other_public, shared_key, message, serialized, encrypted, wire,
                   received_header, decrypted, deserialized>>
    /\ UNCHANGED <<facadeVars, restVars>>

\* The header is read back.
DeserializeHeader ==
    /\ pc = "header_written"
    /\ received_header' = deserialize_header(header_bytes.val)
    /\ pc' = "done"
    /\ UNCHANGED <<self_secret, other_public, shared_key, message, serialized, encrypted, wire,
                   decrypted, deserialized, header_in, header_bytes>>
    /\ UNCHANGED <<facadeVars, restVars>>

Next ==
    \/ ComputeSharedKey
    \/ SerializeMessage
    \/ WriteMessage
    \/ WriteEncryptedMessage
    \/ ForeignFrame
    \/ ReadHeader
    \/ ReadPayload
    \/ ReadEncryptedPayload
    \/ SerializeHeader
    \/ DeserializeHeader

Spec == Init /\ [][Next]_vars

\* ------------------------------------------------------------------------
\* The key server: signatures, the facade's errors, the threshold scheme.

\* Facade errors (types/all.rs) and the conversion of a cluster error.
BadSignature == Err("BadSignature", <<>>)
AccessDenied == Err("AccessDenied", <<>>)
Internal(text) == Err("Internal", text)

\* Cluster errors a session is refused or fails with.
DuplicateSessionId == Err("DuplicateSessionId", <<>>)
InvalidThreshold == Err("InvalidThreshold", <<>>)
InvalidSessionId == Err("InvalidSessionId", <<>>)
NodeDisconnected == Err("NodeDisconnected", <<>>)

\* impl fmt::Display for the cluster error.
display(err) ==
    CASE err.kind = "DuplicateSessionId" -> <<"session with the same id is already registered">>
      [] err.kind = "InvalidSessionId" -> <<"invalid session id has been passed">>
      [] err.kind = "InvalidThreshold" -> <<"invalid threshold value has been passed">>
      [] err.kind = "InvalidMessage" -> <<"invalid message is received">>
      [] err.kind = "NodeDisconnected" ->
             <<"node required for this operation is currently disconnected">>
      [] err.kind = "EthKey" -> <<"cryptographic error">> \o err.text
      [] err.kind = "Io" -> <<"i/o error">> \o err.text
      [] err.kind = "Serde" -> <<"serde error">> \o err.text
      [] err.kind = "AccessDenied" -> <<"Access denied">>

\* impl From<key_server_cluster::Error> for the facade error.
from_cluster_error_verbatim(err) == [ok |-> FALSE, val |-> <<>>, err |-> err]
from_cluster_error(err) ==
    IF err.kind = "AccessDenied" THEN AccessDenied ELSE Internal(display(err))

\* A document address stands for its own message hash.
Documents == 1..MaxDocument

\* ethkey::sign: the point k * G of the nonce k it derives and the scalar
\* s = (message + r * secret) / k, where r is the coordinate of k * G reduced
\* modulo the group order; the nonce is the first that gives r # 0 and s # 0.
SignatureOf(nonce_point, s) == [nonce_point |-> nonce_point, s |-> s]
SignedWith(secret, document, k) ==
    LET nonce_point == ScalarMul(k, generator)
        r == nonce_point % curve_order
    IN  SignatureOf(nonce_point, (ScalarInv(k) * (document + r * secret)) % curve_order)
ValidNonce(secret, document, k) ==
    /\ ScalarMul(k, generator) % curve_order # 0
    /\ SignedWith(secret, document, k).s # 0
sign(secret, document) ==
    IF secret \notin Secrets \/ ~\E k \in Secrets : ValidNonce(secret, document, k)
    THEN EthKeyError(<<"InvalidSecret">>)
    ELSE LET k == CHOOSE j \in Secrets :
                      /\ ValidNonce(secret, document, j)
                      /\ \A i \in Secrets : ValidNonce(secret, document, i) => j <= i
         IN  Ok(SignedWith(secret, document, k))

\* ethkey::recover: the public key (s * R - message * G) / r, for which the
\* signature verifies against the message; there is none when r or s is not a
\* valid scalar or the result is the point at infinity.
recover(sig, document) ==
    LET r == sig.nonce_point % curve_order IN
    IF sig.nonce_point \notin Points \ {Infinity} \/ r = 0 \/ sig.s \notin Secrets
    THEN EthKeyError(<<"InvalidSignature">>)
    ELSE LET point == PointAdd(ScalarMul(sig.s, sig.nonce_point),
                               PointNeg(ScalarMul(document, generator)))
             recovered == ScalarMul(ScalarInv(r), point)
         IN  IF recovered = Infinity
             THEN EthKeyError(<<"InvalidSignature">>)
             ELSE Ok(recovered)

\* The cluster of the test: num_nodes key servers, all connected.
num_nodes == 3
Nodes == 0..(num_nodes - 1)

\* Other ranges a threshold could be held to: [0; n - 2] and [0; n].
check_threshold_below_all(threshold, nodes) ==
    IF threshold >= Cardinality(nodes) - 1 THEN InvalidThreshold ELSE Ok(threshold)
check_threshold_up_to_all(threshold, nodes) ==
    IF threshold > Cardinality(nodes) THEN InvalidThreshold ELSE Ok(threshold)
\* Threshold value must be in [0; n - 1].
check_threshold(threshold, nodes) ==
    IF threshold >= Cardinality(nodes) THEN InvalidThreshold ELSE Ok(threshold)

\* Sums and products of scalars, sums of points, over a set of nodes.
RECURSIVE SumOver(_, _)
SumOver(f, S) ==
    IF S = {} THEN 0
    ELSE LET n == CHOOSE m \in S : TRUE IN (f[n] + SumOver(f, S \ {n})) % curve_order
RECURSIVE ProductOver(_, _)
ProductOver(f, S) ==
    IF S = {} THEN 1
    ELSE LET n == CHOOSE m \in S : TRUE IN (f[n] * ProductOver(f, S \ {n})) % curve_order
RECURSIVE PointSumOver(_, _)
PointSumOver(f, S) ==
    IF S = {} THEN Infinity
    ELSE LET n == CHOOSE m \in S : TRUE IN PointAdd(f[n], PointSumOver(f, S \ {n}))

\* math::compute_polynom: the value of a polynomial (its coefficients, the
\* constant first) at x.
RECURSIVE compute_polynom(_, _)
compute_polynom(polynom, x) ==
    IF polynom = <<>> THEN 0
    ELSE (Head(polynom) + x * compute_polynom(Tail(polynom), x)) % curve_order

\* The polynomials of degree threshold a node may draw.
Polynoms(threshold) == [1..(threshold + 1) -> 1..MaxCoefficient]

\* The id numbers the initiator may assign: distinct and non-zero.
IdNumberings == {[n \in Nodes |-> ((n + shift) % (curve_order - 1)) + 1] : shift \in 0..MaxShift}

\* math::compute_secret_share: the sum of the values every node's polynomial
\* takes at this node's id number.
compute_secret_share(polynoms, id_numbers, node) ==
    SumOver([n \in Nodes |-> compute_polynom(polynoms[n], id_numbers[node])], Nodes)

\* math::compute_joint_public: the sum of the nodes' public constant terms.
compute_joint_public(polynoms) ==
    PointSumOver([n \in Nodes |-> ScalarMul(polynoms[n][1], generator)], Nodes)

\* math::encrypt_secret: the document key point under the joint public.
encrypt_secret(document_key, joint_public, k) ==
    [common_point |-> ScalarMul(k, generator),
     encrypted_point |-> PointAdd(document_key, ScalarMul(k, joint_public))]

\* The product of the other participants' id numbers, not divided by their
\* distances from the node's.
compute_lagrange_numerator(id_numbers, participants, node) ==
    ProductOver([n \in participants \ {node} |-> id_numbers[n]], participants \ {node})
\* The Lagrange coefficient at zero of a node among the participants.
compute_lagrange(id_numbers, participants, node) ==
    ProductOver([n \in participants \ {node} |->
                    id_numbers[n] * ScalarInv(id_numbers[n] - id_numbers[node] + curve_order)],
                participants \ {node})

\* math::compute_node_shadow and compute_node_shadow_point: a participant's
\* partial decryption, blinded by its shadow coefficient in shadow mode.
compute_node_shadow_point(share, participants, node, shadow) ==
    ScalarMul(compute_lagrange(share.id_numbers, participants, node) * share.secret_share + shadow,
              share.common_point)

\* math::decrypt_with_joint_shadow: the encrypted point less the partial
\* decryptions.
decrypt_with_joint_shadow(encrypted_point, partials, participants) ==
    PointAdd(encrypted_point, PointNeg(PointSumOver(partials, participants)))

DocumentKeyShare(threshold, encrypted_key, id_numbers, secret_share) ==
    [threshold |-> threshold, common_point |-> encrypted_key.common_point,
     encrypted_point |-> encrypted_key.encrypted_point, id_numbers |-> id_numbers,
     secret_share |-> secret_share]
NoShare == [threshold |-> -1]
HasShare(node, document) == key_storage[node][document].threshold >= 0

\* types/all.rs: the result of a decryption session.
DocumentEncryptedKeyShadow(decrypted_secret, common_point, decrypt_shadows) ==
    [decrypted_secret |-> decrypted_secret, common_point |-> common_point,
     decrypt_shadows |-> decrypt_shadows]

\* A document key as the bytes the facade encrypts and the client decrypts.
KeyBytes(point) == VecOf(<<point>>)

\* ------------------------------------------------------------------------
\* The facade (key_server.rs) over the cluster's sessions.

\* The requestor public recovered from the signature, or BadSignature.
recover_public_or_internal(sig, document) ==
    LET recovered == recover(sig, document) IN
    IF recovered.ok THEN recovered ELSE Internal(recovered.err.text)
recover_public(sig, document) ==
    LET recovered == recover(sig, document) IN
    IF recovered.ok THEN recovered ELSE BadSignature

\* The is_shadow argument document_key and document_key_shadow pass to
\* new_decryption_session.
is_shadow_requested == TRUE
document_key_is_shadow == FALSE
document_key_shadow_is_shadow == FALSE

\* The document key encrypted with the requestor public.
encrypt_document_key(requestor, document_key, r) ==
    LET encrypted_key == encrypt_single_message(requestor, KeyBytes(document_key), r) IN
    IF encrypted_key.ok THEN encrypted_key
    ELSE Internal(<<"Error encrypting document key">> \o encrypted_key.err.text)

\* Sessions. NoSession: the call in progress waits for none.
NoSession == [kind |-> "none", state |-> "none"]
EncryptionSession(master, document, threshold, id_numbers) ==
    [kind |-> "encryption", state |-> "WaitingForInitializationConfirm", master |-> master,
     id |-> document, threshold |-> threshold, id_numbers |-> id_numbers,
     polynoms |-> [n \in Nodes |-> <<>>], disconnected |-> {}, result |-> Nothing]
DecryptionSession(master, document, share, requestor, is_shadow, participants) ==
    [kind |-> "decryption", state |-> "WaitingForInitializationConfirm", master |-> master,
     id |-> document, share |-> share, requestor |-> requestor, is_shadow |-> is_shadow,
     participants |-> participants, disconnected |-> {}, result |-> Nothing]
\* The nodes that take part in a session.
SessionNodes(s) == IF s.kind = "decryption" THEN s.participants ELSE Nodes
\* A session that notes an error and goes on as it was.
NotedError(s, error) == [s EXCEPT !.result = error]
\* A session that failed with an error: what it had computed is dropped.
FailedSession(s, error) ==
    [kind |-> s.kind, state |-> "Failed", master |-> s.master, id |-> s.id,
     disconnected |-> {}, result |-> error]

\* The nodes of a set in ascending order.
NodesInOrder(S) == SelectSeq([i \in 1..num_nodes |-> i - 1], LAMBDA n : n \in S)

\* What the client holds: a signature made with its secret over a document,
\* or a malformed one.
RequestorSecrets == 1..MaxRequestor
MalformedSignature == SignatureOf(generator, 0)
RequestSignatures(secret) ==
    {[sig |-> sign(secret, d).val, signed_document |-> d] : d \in Documents}
        \cup {[sig |-> MalformedSignature, signed_document |-> 0]}

\* What the sessions draw at random.
Nonces == 1..MaxDraw
DocumentKeys == {ScalarMul(j, generator) : j \in 1..MaxDraw}
ShadowCoefficients(is_shadow) == IF is_shadow THEN 1..MaxDraw ELSE {0}

\* A call that returned: what was asked, the result, the key the client
\* decrypts from the result with its secret, and the peers that were lost
\* while the call waited.
Returned(asked, result, key, disconnected) ==
    [op |-> asked.op, node |-> asked.node, document |-> asked.document,
     threshold |-> asked.threshold, result |-> result, key |-> key,
     disconnected |-> disconnected]
Disconnected(s) == IF s.kind = "none" THEN {} ELSE s.disconnected
client_decrypt(secret, result) ==
    IF result.ok THEN decrypt_single_message(secret, result.val) ELSE Nothing

\* traits.rs, the client's part of a shadow retrieval: decrypt the secret
\* coefficients of decrypt_shadows with the requestor secret, sum them,
\* multiply common_point by the sum and add decrypted_secret.
client_decrypt_shadow(secret, result) ==
    IF ~result.common_point.ok \/ ~result.decrypt_shadows.ok THEN Nothing
    ELSE LET decrypt_shadows == result.decrypt_shadows.val
             secrets == [i \in 1..Len(decrypt_shadows) |->
                            decrypt_single_message(secret, decrypt_shadows[i])]
         IN  IF \E i \in 1..Len(secrets) : ~secrets[i].ok THEN Nothing
             ELSE LET decrypt_shadows_sum ==
                          SumOver([i \in 1..Len(secrets) |-> VecAt(secrets[i].val, 1)],
                                  1..Len(secrets))
                      decrypt_shadow_point ==
                          ScalarMul(decrypt_shadows_sum, result.common_point.val)
                  IN  Ok(PointAdd(result.decrypted_secret, decrypt_shadow_point))

LinkUnused ==
    /\ pc = "unused"
    /\ self_secret = Nothing
    /\ other_public = Nothing
    /\ shared_key = Nothing
    /\ message = Nothing
    /\ serialized = Nothing
    /\ encrypted = Nothing
    /\ wire = Nothing
    /\ received_header = Nothing
    /\ decrypted = Nothing
    /\ deserialized = Nothing
    /\ header_in = Nothing
    /\ header_bytes = Nothing

\* AclStorage::check(requestor_public, document): the ACL prohibits no one,
\* or it prohibits the client for every document.
acl_check(acl, requestor, document) == <<requestor, document>> \notin acl
AclStorages(secret) ==
    {{}, {<<KeyPair_from_secret_slice(secret).val.public, d>> : d \in Documents}}

\* The session manager: a live session is known by its node, kind and id;
\* create_session rejects a session that is live already.
SessionEntry(node, kind, id) == [node |-> node, kind |-> kind, id |-> id]
create_session_unchecked(live, entry) == Ok(Append(live, entry))
create_session(live, entry) ==
    IF \E i \in 1..Len(live) : live[i] = entry
    THEN DuplicateSessionId
    ELSE Ok(Append(live, entry))
\* insert_session_from_network on every one of the peers, in their order.
RECURSIVE insert_sessions_from_network(_, _, _, _)
insert_sessions_from_network(live, peers, kind, id) ==
    IF peers = <<>> THEN Ok(live)
    ELSE LET inserted == create_session(live, SessionEntry(Head(peers), kind, id)) IN
         IF inserted.ok
         THEN insert_sessions_from_network(inserted.val, Tail(peers), kind, id)
         ELSE inserted

\* Three key servers with empty key storages, connected to each other, and
\* a client with a secret and a signature.
InitFacade ==
    /\ requestor_secret \in RequestorSecrets
    /\ signature \in RequestSignatures(requestor_secret)
    /\ ks_pc = "idle"
    /\ call = Nothing
    /\ recovered_public = Nothing
    /\ session = NoSession
    /\ key_storage = [n \in Nodes |-> [d \in Documents |-> NoShare]]
    /\ returned = Nothing
    /\ generated = Nothing
    /\ sessions_created = 0
    /\ messages_sent = 0
    /\ acl_storage \in AclStorages(requestor_secret)
    /\ sessions = <<>>
    /\ second_returned = Nothing
    /\ LinkUnused
    /\ RestUnused

\* A facade call starts by recovering the requestor public.
StartCall(op, node, document, threshold) ==
    /\ call' = [op |-> op, node |-> node, document |-> document, threshold |-> threshold]
    /\ ks_pc' = "recovered"
    /\ returned' = Nothing
    /\ sessions_created' = 0
    /\ messages_sent' = 0
    /\ UNCHANGED <<requestor_secret, signature, acl_storage, session, key_storage, generated,
                   sessions, second_returned, linkVars, restVars>>

\* The call returns to the client.
Return(result) ==
    /\ returned' = Ok(Returned(call, result, client_decrypt(requestor_secret, result),
                               Disconnected(session)))
    /\ ks_pc' = "idle"
    /\ call' = Nothing
    /\ recovered_public' = Nothing
    /\ session' = NoSession
    /\ sessions' = <<>>
    /\ second_returned' = Nothing

\* generate_document_key(signature, document, threshold) on a node, for a
\* document no key was generated for.
GenerateDocumentKey ==
    /\ ks_pc = "idle"
    /\ \A n \in Nodes, d \in Documents : ~HasShare(n, d)
    /\ \E node \in Nodes, document \in Documents, threshold \in 0..num_nodes :
        /\ recovered_public' = recover_public(signature.sig, document)
        /\ StartCall("generate_document_key", node, document, threshold)

\* document_key(signature, document) on a node.
DocumentKey ==
    /\ ks_pc = "idle"
    /\ \E node \in Nodes, document \in Documents :
        /\ recovered_public' = recover_public(signature.sig, document)
        /\ StartCall("document_key", node, document, 0)

\* document_key_shadow(signature, document) on a node: nothing is recovered.
DocumentKeyShadow ==
    /\ ks_pc = "idle"
    /\ \E node \in Nodes, document \in Documents :
        /\ recovered_public' = Nothing
        /\ StartCall("document_key_shadow", node, document, 0)

\* The ? after recover: the call ends with the error.
ReturnBadSignature ==
    /\ ks_pc = "recovered"
    /\ call.op # "document_key_shadow"
    /\ ~recovered_public.ok
    /\ Return(recovered_public)
    /\ UNCHANGED <<requestor_secret, signature, acl_storage, key_storage, generated, sessions_created,
                   messages_sent, linkVars, restVars>>

\* cluster.new_encryption_session(document, threshold)?: the threshold is
\* checked against the connected nodes and the session is registered; the
\* initiator assigns the id numbers and sends InitializeSession to every
\* peer. The requestor is not passed on: the session has no one to ask the
\* ACL about.
NewEncryptionSession ==
    /\ ks_pc = "recovered"
    /\ call.op = "generate_document_key"
    /\ recovered_public.ok
    /\ LET checked == check_threshold(call.threshold, Nodes)
           created == create_session(sessions,
                                     SessionEntry(call.node, "encryption", call.document))
       IN  IF ~checked.ok \/ ~created.ok
           THEN /\ Return(from_cluster_error(IF ~checked.ok THEN checked.err ELSE created.err))
                /\ UNCHANGED <<sessions_created, messages_sent>>
           ELSE /\ \E id_numbers \in IdNumberings :
                    session' = EncryptionSession(call.node, call.document, call.threshold,
                                                 id_numbers)
                /\ sessions' = created.val
                /\ second_returned' = Nothing
                /\ sessions_created' = sessions_created + 1
                /\ messages_sent' = messages_sent + (num_nodes - 1)
                /\ ks_pc' = "waiting"
                /\ UNCHANGED <<call, recovered_public, returned>>
    /\ UNCHANGED <<requestor_secret, signature, acl_storage, key_storage, generated, linkVars, restVars>>

\* Every peer registers the session and confirms; the initiator broadcasts
\* CompleteInitialization.
EncryptionConfirmInitialization ==
    /\ session.kind = "encryption"
    /\ session.state = "WaitingForInitializationConfirm"
    /\ LET inserted == insert_sessions_from_network(sessions,
                           NodesInOrder(Nodes \ {session.master}), "encryption", session.id)
       IN  IF inserted.ok
           THEN /\ session' = [session EXCEPT !.state = "WaitingForKeysDissemination"]
                /\ sessions' = inserted.val
           ELSE /\ session' = FailedSession(session, inserted)
                /\ sessions' = <<>>
    /\ second_returned' = Nothing
    /\ messages_sent' = messages_sent + 2 * (num_nodes - 1)
    /\ UNCHANGED <<requestor_secret, signature, acl_storage, ks_pc, call, recovered_public,
                   key_storage, returned, generated, sessions_created, linkVars, restVars>>

\* A node draws its polynomial and sends every other node its value at
\* that node's id number.
EncryptionKeysDissemination ==
    /\ session.kind = "encryption"
    /\ session.state = "WaitingForKeysDissemination"
    /\ \E node \in Nodes, polynom \in Polynoms(session.threshold) :
        /\ session.polynoms[node] = <<>>
        /\ LET polynoms == [session.polynoms EXCEPT ![node] = polynom] IN
           session' = [session EXCEPT
                          !.polynoms = polynoms,
                          !.state = IF \A n \in Nodes : polynoms[n] # <<>>
                                    THEN "WaitingForKeysShare"
                                    ELSE "WaitingForKeysDissemination"]
    /\ second_returned' = Nothing
    /\ messages_sent' = messages_sent + (num_nodes - 1)
    /\ UNCHANGED <<requestor_secret, signature, acl_storage, ks_pc, call, recovered_public,
                   key_storage, returned, generated, sessions_created, sessions, linkVars, restVars>>

\* Every node computes its secret share and publishes its public share; the
\* initiator draws the document key and encrypts it under the joint public;
\* every node persists its DocumentKeyShare; the polynomials are dropped.
EncryptionPublicKeyShare ==
    /\ session.kind = "encryption"
    /\ session.state = "WaitingForKeysShare"
    /\ \E document_key \in DocumentKeys, k \in Nonces :
        LET encrypted_key == encrypt_secret(document_key,
                                            compute_joint_public(session.polynoms), k)
        IN  /\ key_storage' =
                   [n \in Nodes |->
                       [key_storage[n] EXCEPT ![session.id] =
                           DocumentKeyShare(session.threshold, encrypted_key, session.id_numbers,
                               compute_secret_share(session.polynoms, session.id_numbers, n))]]
            /\ session' = [session EXCEPT !.state = "Finished",
                                           !.polynoms = [n \in Nodes |-> <<>>],
                                           !.result = Ok(document_key)]
    /\ sessions' = <<>>
    /\ second_returned' = Nothing
    /\ messages_sent' = messages_sent + 2 * (num_nodes - 1)
    /\ UNCHANGED <<requestor_secret, signature, acl_storage, ks_pc, call, recovered_public,
                   returned, generated, sessions_created, linkVars, restVars>>

\* cluster.new_decryption_session(document, signature, is_shadow)?: the
\* node loads its key share, recovers the requestor and asks the ACL,
\* registers the session, picks threshold + 1 participants with itself among
\* them and sends InitializeDecryptionSession to the others.
NewDecryptionSession ==
    /\ ks_pc = "recovered"
    /\ call.op \in {"document_key", "document_key_shadow"}
    /\ call.op = "document_key" => recovered_public.ok
    /\ LET share == key_storage[call.node][call.document]
           requestor == recover(signature.sig, call.document)
           is_shadow == IF call.op = "document_key" THEN document_key_is_shadow
                        ELSE document_key_shadow_is_shadow
           created == create_session(sessions,
                                     SessionEntry(call.node, "decryption", call.document))
           refused == IF share.threshold < 0 THEN InvalidSessionId
                      ELSE IF ~requestor.ok THEN requestor
                      ELSE IF ~acl_check(acl_storage, requestor.val, call.document)
                      THEN AccessDenied
                      ELSE created
       IN  IF ~refused.ok
           THEN /\ Return(from_cluster_error(refused.err))
                /\ UNCHANGED <<sessions_created, messages_sent>>
           ELSE /\ \E participants \in SUBSET Nodes :
                    /\ call.node \in participants
                    /\ Cardinality(participants) = share.threshold + 1
                    /\ session' = DecryptionSession(call.node, call.document, share,
                                                    requestor.val, is_shadow, participants)
                /\ sessions' = created.val
                /\ second_returned' = Nothing
                /\ sessions_created' = sessions_created + 1
                /\ messages_sent' = messages_sent + share.threshold
                /\ ks_pc' = "waiting"
                /\ UNCHANGED <<call, recovered_public, returned>>
    /\ UNCHANGED <<requestor_secret, signature, acl_storage, key_storage, generated, linkVars, restVars>>

\* Every participant registers the session, checks the requestor and
\* confirms; the initiator requests the partial decryptions.
DecryptionConfirmInitialization ==
    /\ session.kind = "decryption"
    /\ session.state = "WaitingForInitializationConfirm"
    /\ LET inserted == insert_sessions_from_network(sessions,
                           NodesInOrder(session.participants \ {session.master}),
                           "decryption", session.id)
       IN  IF inserted.ok
           THEN /\ session' = [session EXCEPT !.state = "WaitingForPartialDecryption"]
                /\ sessions' = inserted.val
           ELSE /\ session' = FailedSession(session, inserted)
                /\ sessions' = <<>>
    /\ second_returned' = Nothing
    /\ messages_sent' = messages_sent + 2 * session.share.threshold
    /\ UNCHANGED <<requestor_secret, signature, acl_storage, ks_pc, call, recovered_public,
                   key_storage, returned, generated, sessions_created, linkVars, restVars>>

\* Every participant computes its partial decryption from its own key
\* share; the initiator subtracts their sum from the encrypted point.
DecryptionPartialDecryption ==
    /\ session.kind = "decryption"
    /\ session.state = "WaitingForPartialDecryption"
    /\ \E shadows \in [session.participants -> ShadowCoefficients(session.is_shadow)],
          r \in Nonces :
        LET partials == [n \in session.participants |->
                            compute_node_shadow_point(key_storage[n][session.id],
                                                      session.participants, n, shadows[n])]
            decrypted_secret == decrypt_with_joint_shadow(session.share.encrypted_point,
                                                          partials, session.participants)
            order == NodesInOrder(session.participants)
            decrypt_shadows ==
                [i \in 1..Len(order) |->
                    encrypt_single_message(session.requestor, VecOf(<<shadows[order[i]]>>), r).val]
        IN  session' = [session EXCEPT
                !.state = "Finished",
                !.result = Ok(IF session.is_shadow
                              THEN DocumentEncryptedKeyShadow(decrypted_secret,
                                       Ok(session.share.common_point), Ok(decrypt_shadows))
                              ELSE DocumentEncryptedKeyShadow(decrypted_secret, Nothing, Nothing))]
    /\ sessions' = <<>>
    /\ second_returned' = Nothing
    /\ messages_sent' = messages_sent + session.share.threshold
    /\ UNCHANGED <<requestor_secret, signature, acl_storage, ks_pc, call, recovered_public,
                   key_storage, returned, generated, sessions_created, linkVars, restVars>>

\* The connection to a peer that takes part in the live session is lost (the
\* peer went down, or this node is shutting down): the session observes
\* NodeDisconnected and fails; what it had computed is dropped.
PeerDisconnected ==
    /\ session.kind \in {"encryption", "decryption"}
    /\ session.state \notin {"Finished", "Failed"}
    /\ \E peer \in SessionNodes(session) \ {session.master} :
        session' = [FailedSession(session, NodeDisconnected) EXCEPT !.disconnected = {peer}]
    /\ sessions' = <<>>
    /\ second_returned' = Nothing
    /\ UNCHANGED <<requestor_secret, signature, acl_storage, ks_pc, call, recovered_public,
                   key_storage, returned, generated, sessions_created, messages_sent, linkVars, restVars>>

\* While the call waits, a second caller asks a node for a session that the
\* node runs already: it is refused and nothing changes for the live one.
SecondRequest ==
    /\ ks_pc = "waiting"
    /\ \E i \in 1..Len(sessions) :
        LET created == create_session(sessions, sessions[i]) IN
        /\ second_returned' =
               Ok([entry |-> sessions[i],
                   result |-> IF created.ok THEN Ok(sessions[i])
                              ELSE from_cluster_error(created.err)])
        /\ sessions' = IF created.ok THEN created.val ELSE sessions
    /\ ~second_returned.ok
    /\ UNCHANGED <<requestor_secret, signature, acl_storage, ks_pc, call, recovered_public,
                   session, key_storage, returned, generated, sessions_created,
                   messages_sent, linkVars, restVars>>

\* encryption_session.wait()?, then the document key is encrypted with the
\* recovered public; the client decrypts the generated key.
WaitGenerateDocumentKey ==
    /\ ks_pc = "waiting"
    /\ call.op = "generate_document_key"
    /\ session.state \in {"Finished", "Failed"}
    /\ \E r \in Nonces :
        LET result == IF session.result.ok
                      THEN encrypt_document_key(recovered_public.val, session.result.val, r)
                      ELSE from_cluster_error(session.result.err)
        IN  /\ Return(result)
            /\ generated' = IF result.ok
                            THEN Ok([document |-> call.document, threshold |-> call.threshold,
                                     key |-> client_decrypt(requestor_secret, result)])
                            ELSE generated
    /\ UNCHANGED <<requestor_secret, signature, acl_storage, key_storage, sessions_created,
                   messages_sent, linkVars, restVars>>

\* decryption_session.wait()?.decrypted_secret, encrypted with the
\* recovered public.
WaitDocumentKey ==
    /\ ks_pc = "waiting"
    /\ call.op = "document_key"
    /\ session.state \in {"Finished", "Failed"}
    /\ \E r \in Nonces :
        Return(IF session.result.ok
               THEN encrypt_document_key(recovered_public.val,
                                         session.result.val.decrypted_secret, r)
               ELSE from_cluster_error(session.result.err))
    /\ UNCHANGED <<requestor_secret, signature, acl_storage, key_storage, generated,
                   sessions_created, messages_sent, linkVars, restVars>>

\* decryption_session.wait().map_err(Into::into): the session's result as
\* it is.
WaitDocumentKeyShadow ==
    /\ ks_pc = "waiting"
    /\ call.op = "document_key_shadow"
    /\ session.state \in {"Finished", "Failed"}
    /\ returned' = Ok(Returned(call, IF session.result.ok THEN session.result
                                     ELSE from_cluster_error(session.result.err),
                             Nothing, Disconnected(session)))
    /\ ks_pc' = "idle"
    /\ call' = Nothing
    /\ recovered_public' = Nothing
    /\ session' = NoSession
    /\ sessions' = <<>>
    /\ second_returned' = Nothing
    /\ UNCHANGED <<requestor_secret, signature, acl_storage, key_storage, generated,
                   sessions_created, messages_sent, linkVars, restVars>>

NextFacade ==
    \/ GenerateDocumentKey
    \/ DocumentKey
    \/ DocumentKeyShadow
    \/ ReturnBadSignature
    \/ NewEncryptionSession
    \/ EncryptionConfirmInitialization
    \/ EncryptionKeysDissemination
    \/ EncryptionPublicKeyShare
    \/ NewDecryptionSession
    \/ DecryptionConfirmInitialization
    \/ DecryptionPartialDecryption
    \/ WaitGenerateDocumentKey
    \/ WaitDocumentKey
    \/ WaitDocumentKeyShadow

SpecFacade == InitFacade /\ [][NextFacade]_vars

\* The cluster under faults: connections are lost while sessions are live
\* and a second caller competes for sessions. The client holds a signature
\* over the first document, or a malformed one, and the ACL permits it.
InitCluster ==
    /\ InitFacade
    /\ signature.signed_document \in {0, 1}
    /\ acl_storage = {}

NextCluster ==
    \/ NextFacade
    \/ PeerDisconnected
    \/ SecondRequest

SpecCluster == InitCluster /\ [][NextCluster]_vars

\* ------------------------------------------------------------------------
\* Properties of the codec and of the link key.

IsNothing(r) == ~r.ok /\ r.err.kind = "Nothing"
Failed(r, kind) == ~r.ok /\ r.err.kind = kind
\* The size field of a frame and the bytes that follow its header.
FrameSize(frame) == VecAt(frame, 3) + 256 * VecAt(frame, 4)
FramePayload(frame) == VecDrop(frame, 4)
\* The JSON of the message handed to serialize_message.
SentJson == to_vec(message.val.payload).val
\* A frame this end serialized was read back in cleartext, or encrypted.
ReadBackClear == pc = "done" /\ message.ok /\ wire.ok /\ ~wire.val.encrypted
ReadBackEncrypted == pc = "done" /\ message.ok /\ wire.ok /\ wire.val.encrypted

\* C2: a message of any kind whose JSON payload is at most 65535 bytes
\* serializes; the size field of the header equals the number of payload
\* bytes after the header; reading the frame back gives the message.
C2_SerializeDeserializeRoundTrip ==
    (message.ok /\ VecLen(SentJson) <= 65535) =>
        /\ serialized.ok
        /\ VecLen(serialized.val) >= 4
        /\ FrameSize(serialized.val) = VecLen(FramePayload(serialized.val))
        /\ ReadBackClear => (deserialized.ok /\ deserialized.val = message.val)

\* C2 witness: a message whose JSON is exactly 65535 bytes was read back.
C2_Witness ==
    /\ ReadBackClear
    /\ VecLen(SentJson) = 65535
    /\ deserialized.ok /\ deserialized.val = message.val

\* C3 as stated: for every message that serializes and every link key, the
\* encrypted path yields the serialized payload and the message.
C3_EveryMessageSurvivesEncryption ==
    (pc = "done" /\ message.ok /\ serialized.ok /\ shared_key.ok) =>
        /\ encrypted.ok
        /\ decrypted.ok /\ decrypted.val = FramePayload(serialized.val)
        /\ deserialized.ok /\ deserialized.val = message.val

\* C3 amended: whenever serialize_message and encrypt_message both succeed,
\* decrypting the bytes after the header with the same key pair gives the
\* serialized payload, and deserializing it with the received header gives
\* the message.
C3_EncryptDecryptRoundTrip ==
    (pc = "done" /\ message.ok /\ encrypted.ok) =>
        /\ wire.ok /\ wire.val.bytes = encrypted.val
        /\ decrypted.ok /\ decrypted.val = FramePayload(serialized.val)
        /\ deserialized.ok /\ deserialized.val = message.val

\* C3 witness: an encrypted frame with a payload that is not empty came back.
C3_Witness ==
    /\ ReadBackEncrypted
    /\ VecLen(message.val.payload) > 0
    /\ decrypted.ok /\ decrypted.val = FramePayload(serialized.val)
    /\ deserialized.ok /\ deserialized.val = message.val

\* C4: a payload longer than 65535 bytes fails with InvalidMessage and no
\* frame is produced; one of exactly 65535 bytes is accepted with size 65535;
\* the size field of a frame never wraps.
C4_FrameSizeLimit ==
    /\ (message.ok /\ VecLen(SentJson) > 65535) =>
           /\ Failed(serialized, "InvalidMessage")
           /\ IsNothing(encrypted) /\ IsNothing(wire)
    /\ (message.ok /\ VecLen(SentJson) = 65535) =>
           /\ serialized.ok
           /\ VecAt(serialized.val, 3) = 255 /\ VecAt(serialized.val, 4) = 255
    /\ serialized.ok =>
           /\ FramePayload(serialized.val) = SentJson
           /\ FrameSize(serialized.val) = VecLen(SentJson)
    /\ encrypted.ok =>
           /\ VecLen(FramePayload(encrypted.val)) <= 65535
           /\ FrameSize(encrypted.val) = VecLen(FramePayload(encrypted.val))
    /\ (~encrypted.ok /\ ~IsNothing(encrypted)) =>
           Failed(encrypted, "InvalidMessage") /\ IsNothing(wire)

\* C4 witness: a message whose JSON is 65536 bytes was refused.
C4_Witness ==
    message.ok /\ VecLen(SentJson) = 65536 /\ Failed(serialized, "InvalidMessage")

\* The numbers of the kind table.
KindNumbers == (1..4) \cup (50..58) \cup (100..104)

\* C5: a header whose kind is not in the kind table makes deserialize_message
\* fail with Serde("unknown message type <kind>"), whatever the payload.
C5_UnknownKind ==
    (pc = "done" /\ wire.ok /\ received_header.ok /\ received_header.val.kind \notin KindNumbers) =>
        /\ ~deserialized.ok
        /\ deserialized.err = [kind |-> "Serde",
                               text |-> <<"unknown message type", received_header.val.kind>>]

\* C5 witness: a frame of kind 5 with a well-formed JSON payload was refused.
C5_Witness ==
    /\ pc = "done" /\ wire.ok /\ received_header.ok
    /\ received_header.val.kind = 5
    /\ from_slice(FramePayload(wire.val.bytes)).ok
    /\ Failed(deserialized, "Serde")

\* C6 as stated: decoding a frame whose header version is not 1 fails with
\* InvalidMessage.
C6_OtherVersionsRejected ==
    (pc = "done" /\ wire.ok /\ VecAt(wire.val.bytes, 1) # 1) =>
        Failed(received_header, "InvalidMessage") \/ Failed(deserialized, "InvalidMessage")

\* C6 amended: version 1 is the only version serialize_message and
\* encrypt_message write; the reader does not check it: deserialize_header
\* returns the version byte it reads, whatever it is, and
\* deserialize_message decodes the frame as it would with version 1.
C6_VersionWrittenNotChecked ==
    /\ serialized.ok => VecAt(serialized.val, 1) = 1
    /\ encrypted.ok => VecAt(encrypted.val, 1) = 1
    /\ (pc \in {"header_read", "done"} /\ wire.ok) =>
           /\ received_header.ok
           /\ received_header.val.version = VecAt(wire.val.bytes, 1)
    /\ (pc = "done" /\ wire.ok /\ ~wire.val.encrypted) =>
           LET as_version_1 == deserialize_message([received_header.val EXCEPT !.version = 1],
                                                   FramePayload(wire.val.bytes))
           IN  /\ deserialized.ok = as_version_1.ok
               /\ deserialized.ok => deserialized.val = as_version_1.val
               /\ deserialized.err = as_version_1.err

\* C6 witness: a frame of version 2 was decoded into a message.
C6_Witness ==
    /\ pc = "done" /\ wire.ok /\ VecAt(wire.val.bytes, 1) = 2
    /\ received_header.ok /\ received_header.val.version = 2
    /\ deserialized.ok

\* The kind table.
KindTable ==
    [v \in AllVariants |->
        CASE v = "NodePublicKey" -> 1
          [] v = "NodePrivateKeySignature" -> 2
          [] v = "KeepAlive" -> 3
          [] v = "KeepAliveResponse" -> 4
          [] v = "InitializeSession" -> 50
          [] v = "ConfirmInitialization" -> 51
          [] v = "CompleteInitialization" -> 52
          [] v = "KeysDissemination" -> 53
          [] v = "Complaint" -> 54
          [] v = "ComplaintResponse" -> 55
          [] v = "PublicKeyShare" -> 56
          [] v = "SessionError" -> 57
          [] v = "SessionCompleted" -> 58
          [] v = "InitializeDecryptionSession" -> 100
          [] v = "ConfirmDecryptionInitialization" -> 101
          [] v = "RequestPartialDecryption" -> 102
          [] v = "PartialDecryption" -> 103
          [] v = "DecryptionSessionError" -> 104]

\* C7: serialize_message writes the number the kind table gives the variant,
\* no two variants are written with the same number, and deserialize_message
\* maps a number to the variant of that number, in the variant's own family.
C7_KindTableBothWays ==
    /\ (message.ok /\ serialized.ok) =>
           VecAt(serialized.val, 2) = KindTable[message.val.variant]
    /\ pc = "start" =>
           \A m1, m2 \in MessagesOf({<<>>}, AllVariants) :
               VecAt(serialize_message(m1).val, 2) = VecAt(serialize_message(m2).val, 2) => m1 = m2
    /\ (pc = "done" /\ wire.ok /\ ~wire.val.encrypted /\ deserialized.ok) =>
           /\ KindTable[deserialized.val.variant] = received_header.val.kind
           /\ deserialized.val.variant \in FamilyVariants(deserialized.val.family)
    /\ ReadBackClear =>
           /\ deserialized.ok
           /\ deserialized.val.variant = message.val.variant
           /\ deserialized.val.family = message.val.family

\* C7 witness: a Complaint was written as 54 and read back as a Complaint.
C7_Witness ==
    /\ ReadBackClear
    /\ message.val.variant = "Complaint"
    /\ received_header.ok /\ received_header.val.kind = 54
    /\ deserialized.ok /\ deserialized.val.variant = "Complaint"

\* C8: serialize_header gives exactly 4 bytes: version, kind, the low byte
\* of size, the high byte of size; deserialize_header gives the header back.
C8_HeaderRoundTrip ==
    header_in.ok =>
        /\ header_bytes.ok
        /\ VecLen(header_bytes.val) = 4
        /\ VecAt(header_bytes.val, 1) = header_in.val.version
        /\ VecAt(header_bytes.val, 2) = header_in.val.kind
        /\ VecAt(header_bytes.val, 3) = header_in.val.size % 256
        /\ VecAt(header_bytes.val, 4) = header_in.val.size \div 256
        /\ pc = "done" => (received_header.ok /\ received_header.val = header_in.val)

\* C8 witness: a header of size 256 (low byte 0, high byte 1) was read back.
C8_Witness ==
    /\ pc = "done" /\ header_in.ok
    /\ header_in.val.size = 256
    /\ received_header.ok /\ received_header.val = header_in.val

\* C9: when compute_shared_key returns a key pair, its secret is the ECDH
\* agreement value reduced modulo the curve order and lies in
\* [1, curve_order); when the reduced value is 0 it returns an error; every
\* agreement value that reduces to a non-zero scalar gives a key pair.
C9_SharedKeyReduced ==
    other_public.ok =>
        LET raw == agree(self_secret, other_public.val) IN
        /\ shared_key.ok =>
               /\ raw.ok
               /\ shared_key.val.secret = raw.val % curve_order
               /\ shared_key.val.secret >= 1 /\ shared_key.val.secret < curve_order
        /\ (raw.ok /\ raw.val % curve_order = 0) => ~shared_key.ok /\ ~IsNothing(shared_key)
        /\ (raw.ok /\ raw.val % curve_order # 0) => shared_key.ok

\* C9 witness: an agreement value outside the scalar range gave a key pair.
C9_Witness ==
    /\ other_public.ok /\ shared_key.ok
    /\ agree(self_secret, other_public.val).val >= curve_order


\* ------------------------------------------------------------------------
\* Properties of the key server facade.

\* The call that returned last was this operation.
ReturnedFrom(op) == returned.ok /\ returned.val.op = op
\* The facade operations that recover the requestor public first.
RecoveringOps == {"generate_document_key", "document_key"}
\* The signature the client holds was made over another document than this.
SignedOverAnother(document) ==
    signature.signed_document \in Documents /\ signature.signed_document # document

\* C1: in the 3-node cluster that stays connected and whose ACL permits the
\* requestor, for every threshold in {0, 1, 2}:
\* once generate_document_key(sig, doc, t) has succeeded and the client has
\* decrypted its result with the requestor's secret to K, document_key(sig,
\* doc) succeeds on every node and its result decrypts with the same secret
\* to exactly K.
C1_RetrievedKeyIsGeneratedKey ==
    (/\ ReturnedFrom("document_key")
     /\ generated.ok
     /\ generated.val.key.ok
     /\ generated.val.document = returned.val.document
     /\ returned.val.disconnected = {}
     /\ acl_check(acl_storage, recover(signature.sig, returned.val.document).val,
                  returned.val.document))
        => /\ generated.val.threshold \in 0..2
           /\ returned.val.result.ok
           /\ returned.val.key.ok
           /\ returned.val.key.val = generated.val.key.val
C1_Witness ==
    /\ ReturnedFrom("document_key")
    /\ returned.val.node = 2
    /\ generated.ok
    /\ generated.val.key.ok
    /\ generated.val.threshold = 2
    /\ generated.val.document = returned.val.document
    /\ returned.val.key.ok
    /\ returned.val.key.val = generated.val.key.val

\* C10 as stated: whenever the signature was made over a document other
\* than the one passed in the call, the facade returns BadSignature, and no
\* session was created and no message sent.
C10_DifferentDocumentIsBadSignature ==
    (/\ returned.ok
     /\ returned.val.op \in RecoveringOps
     /\ SignedOverAnother(returned.val.document))
        => /\ Failed(returned.val.result, "BadSignature")
           /\ sessions_created = 0
           /\ messages_sent = 0

\* C10, amended: generate_document_key and document_key return
\* BadSignature exactly when no public key can be recovered from the
\* signature and the passed document, and then no session is created and no
\* message is sent; a call for which a public key is recovered goes on to
\* the cluster, whatever document the signature was made over.
C10_BadSignatureWhenRecoveryFails ==
    /\ (ks_pc \in {"recovered", "waiting"} /\ call.op \in RecoveringOps)
            => IF recover(signature.sig, call.document).ok
               THEN recovered_public = recover(signature.sig, call.document)
               ELSE /\ Failed(recovered_public, "BadSignature")
                    /\ ks_pc = "recovered"
                    /\ session = NoSession
                    /\ sessions_created = 0
                    /\ messages_sent = 0
    /\ (returned.ok /\ returned.val.op \in RecoveringOps)
            => IF recover(signature.sig, returned.val.document).ok
               THEN ~Failed(returned.val.result, "BadSignature")
               ELSE /\ Failed(returned.val.result, "BadSignature")
                    /\ sessions_created = 0
                    /\ messages_sent = 0
C10_Witness ==
    /\ ReturnedFrom("generate_document_key")
    /\ SignedOverAnother(returned.val.document)
    /\ ~recover(signature.sig, returned.val.document).ok
    /\ Failed(returned.val.result, "BadSignature")
    /\ sessions_created = 0
    /\ messages_sent = 0

\* ------------------------------------------------------------------------
\* C11: document_key_shadow starts its decryption session in shadow mode
\* and document_key starts its session out of shadow mode; a successful
\* result of document_key_shadow carries common_point and decrypt_shadows
\* with one encrypted coefficient per participating node (threshold + 1).
LiveDecryptionSession ==
    /\ ks_pc = "waiting"
    /\ session.kind = "decryption"
    /\ session.state # "Failed"
ShadowSucceeded == ReturnedFrom("document_key_shadow") /\ returned.val.result.ok
C11_ShadowCallRunsInShadowMode ==
    /\ LiveDecryptionSession =>
          (session.is_shadow <=> call.op = "document_key_shadow")
    /\ ShadowSucceeded =>
          /\ returned.val.result.val.common_point.ok
          /\ returned.val.result.val.decrypt_shadows.ok
          /\ Len(returned.val.result.val.decrypt_shadows.val) =
                 key_storage[returned.val.node][returned.val.document].threshold + 1

\* C11: a shadow retrieval of a key of threshold 1 on node 1 succeeded.
C11_Witness ==
    /\ ShadowSucceeded
    /\ returned.val.node = 1
    /\ key_storage[1][returned.val.document].threshold = 1

\* C12: for every successful shadow retrieval by a valid requestor,
\* decrypting each entry of decrypt_shadows with the requestor's secret,
\* summing the scalars to s and computing decrypted_secret + s * common_point
\* yields the document key that generation returned.
ShadowOfGeneratedKey ==
    /\ ShadowSucceeded
    /\ generated.ok
    /\ generated.val.key.ok
    /\ generated.val.document = returned.val.document
    /\ signature.signed_document = returned.val.document
C12_ShadowCalculationYieldsKey ==
    ShadowOfGeneratedKey =>
        LET document_key == client_decrypt_shadow(requestor_secret, returned.val.result.val)
        IN  /\ document_key.ok
            /\ KeyBytes(document_key.val) = generated.val.key.val

\* C12: a shadow retrieval by the requestor that generated the key
\* succeeded, for a key of threshold 1.
C12_Witness ==
    /\ ShadowOfGeneratedKey
    /\ generated.val.threshold = 1

\* What the shadow retrieval returns instead: the document key itself in
\* decrypted_secret, and nothing to calculate with.
C12_ShadowReturnsWholeKey ==
    ShadowOfGeneratedKey =>
        /\ ~returned.val.result.val.common_point.ok
        /\ ~returned.val.result.val.decrypt_shadows.ok
        /\ KeyBytes(returned.val.result.val.decrypted_secret) = generated.val.key.val

\* C13: when the ACL rejects the requestor for a document,
\* generate_document_key (asked with a threshold that is valid under every
\* reading) returns the facade error AccessDenied, and after the call no
\* node holds a DocumentKeyShare for that document.
GenerationDeniedByAcl ==
    /\ ReturnedFrom("generate_document_key")
    /\ returned.val.threshold <= num_nodes - 2
    /\ recover(signature.sig, returned.val.document).ok
    /\ ~acl_check(acl_storage, recover(signature.sig, returned.val.document).val,
                  returned.val.document)
C13_GenerationDeniedIsAccessDenied ==
    GenerationDeniedByAcl =>
        /\ Failed(returned.val.result, "AccessDenied")
        /\ \A n \in Nodes : ~HasShare(n, returned.val.document)

\* C13: the ACL rejects the requestor for the document, and
\* generate_document_key succeeded and every node holds a share.
C13_Witness ==
    /\ GenerationDeniedByAcl
    /\ returned.val.result.ok
    /\ \A n \in Nodes : HasShare(n, returned.val.document)

\* C14: document_key called with a valid signature for a document for
\* which the node holds no DocumentKeyShare returns the facade error
\* DocumentNotFound.
RetrievalWithoutShare ==
    /\ ReturnedFrom("document_key")
    /\ signature.signed_document = returned.val.document
    /\ ~HasShare(returned.val.node, returned.val.document)
C14_NoShareIsDocumentNotFound ==
    RetrievalWithoutShare => Failed(returned.val.result, "DocumentNotFound")

\* C14: document_key for a document the node holds no share of returned
\* the internal error that carries the text of the cluster's
\* InvalidSessionId.
C14_Witness ==
    /\ RetrievalWithoutShare
    /\ returned.val.result = Internal(display(InvalidSessionId.err))

\* C15 as stated: generate_document_key called with a threshold that is
\* invalid for the connected nodes reports the error InvalidThreshold to the
\* caller of the facade.
GenerationWithInvalidThreshold ==
    /\ ReturnedFrom("generate_document_key")
    /\ recover(signature.sig, returned.val.document).ok
    /\ ~check_threshold(returned.val.threshold, Nodes).ok
C15_InvalidThresholdReachesCaller ==
    GenerationWithInvalidThreshold => Failed(returned.val.result, "InvalidThreshold")

\* C15, amended: generate_document_key called with a threshold that is
\* invalid for the connected nodes returns the facade error Internal whose
\* text is the display text of the cluster's InvalidThreshold; no session
\* was created, no message sent and no share persisted.
C15_InvalidThresholdIsInternal ==
    GenerationWithInvalidThreshold =>
        /\ returned.val.result = Internal(<<"invalid threshold value has been passed">>)
        /\ sessions_created = 0
        /\ messages_sent = 0
        /\ \A n \in Nodes : ~HasShare(n, returned.val.document)
C15_Witness ==
    /\ GenerationWithInvalidThreshold
    /\ returned.val.threshold = num_nodes
    /\ Failed(returned.val.result, "Internal")

\* C16: a threshold t = n - 1 is legal. With n = 3 nodes, key generation
\* with t = 2 succeeds and every node persists a share; afterwards
\* document_key succeeds on every node, and its session takes all n nodes.
GenerationWithAllNodesRequired ==
    /\ ReturnedFrom("generate_document_key")
    /\ returned.val.threshold = num_nodes - 1
    /\ recover(signature.sig, returned.val.document).ok
RetrievalWithAllNodesRequired ==
    /\ ReturnedFrom("document_key")
    /\ key_storage[returned.val.node][returned.val.document].threshold = num_nodes - 1
    /\ recover(signature.sig, returned.val.document).ok
    /\ acl_check(acl_storage, recover(signature.sig, returned.val.document).val,
                 returned.val.document)
C16_ThresholdOfAllButOneIsLegal ==
    /\ GenerationWithAllNodesRequired =>
          /\ returned.val.result.ok
          /\ \A n \in Nodes :
                key_storage[n][returned.val.document].threshold = num_nodes - 1
    /\ RetrievalWithAllNodesRequired => returned.val.result.ok
    /\ (LiveDecryptionSession /\ session.share.threshold = num_nodes - 1)
          => session.participants = Nodes
C16_Witness ==
    /\ RetrievalWithAllNodesRequired
    /\ returned.val.node = num_nodes - 1
    /\ returned.val.result.ok
    /\ generated.ok
    /\ generated.val.threshold = 2

\* C17 as stated: an encryption session requested with threshold
\* t >= n - 1, n being the number of participating nodes, is rejected with
\* InvalidThreshold (which the facade hands to its caller in the text of
\* Internal), and no session is created.
GenerationAsked(thresholds) ==
    /\ ReturnedFrom("generate_document_key")
    /\ recover(signature.sig, returned.val.document).ok
    /\ returned.val.threshold \in thresholds
RejectedWithInvalidThreshold ==
    /\ returned.val.result = from_cluster_error(InvalidThreshold.err)
    /\ sessions_created = 0
C17_AllButOneIsRejected ==
    GenerationAsked((num_nodes - 1)..num_nodes) => RejectedWithInvalidThreshold

\* C17, amended: an encryption session requested with threshold t >= n is
\* rejected with InvalidThreshold and no session is created; a session with
\* t <= n - 1 (|P| >= t + 1) is admitted.
C17_AllOrMoreIsRejected ==
    /\ GenerationAsked({num_nodes}) => RejectedWithInvalidThreshold
    /\ GenerationAsked(0..(num_nodes - 1)) =>
          /\ sessions_created = 1
          /\ ~RejectedWithInvalidThreshold
    /\ (ks_pc = "waiting" /\ session.kind = "encryption" /\ session.state # "Failed")
          => num_nodes >= session.threshold + 1
C17_Witness ==
    /\ GenerationAsked({num_nodes})
    /\ RejectedWithInvalidThreshold
    /\ \A n \in Nodes, d \in Documents : ~HasShare(n, d)

\* C18: in every reachable state every node has at most one live session
\* per (SessionId, session kind); a request to create a session whose id
\* and kind match a live session of the node is rejected with
\* DuplicateSessionId (the text of the facade's Internal) and leaves the
\* live sessions and the existing session unchanged.
OneLiveSessionPerIdAndKind ==
    \A i, j \in 1..Len(sessions) : sessions[i] = sessions[j] => i = j
SecondRequestRefused ==
    second_returned.ok =>
        /\ second_returned.val.result = from_cluster_error(DuplicateSessionId.err)
        /\ \E i \in 1..Len(sessions) : sessions[i] = second_returned.val.entry
SecondRequestAnswered == ~second_returned.ok /\ second_returned'.ok
C18_AtMostOneLiveSession ==
    /\ [](OneLiveSessionPerIdAndKind /\ SecondRequestRefused)
    /\ [][SecondRequestAnswered => (sessions' = sessions /\ session' = session)]_vars

\* C18: a second request for a session that a peer of the initiator runs
\* was answered while all three nodes run the session.
C18_Witness ==
    /\ second_returned.ok
    /\ Len(sessions) = num_nodes
    /\ second_returned.val.entry.node # call.node
    /\ Failed(second_returned.val.result, "Internal")

\* C19: for every encryption session that completes successfully with
\* threshold t, Lagrange-combining the partial decryptions of any t + 1 of
\* the session's participants yields the document key point the initiator
\* holds as the session's result.
EncryptionCompleted ==
    /\ ks_pc = "waiting"
    /\ session.kind = "encryption"
    /\ session.state = "Finished"
    /\ session.result.ok
CombinedPartialDecryptions(document, participants) ==
    LET share == key_storage[CHOOSE n \in participants : TRUE][document]
        partials == [n \in participants |->
                        compute_node_shadow_point(key_storage[n][document], participants, n, 0)]
    IN  decrypt_with_joint_shadow(share.encrypted_point, partials, participants)
C19_AnySubsetReconstructsKey ==
    EncryptionCompleted =>
        \A participants \in SUBSET Nodes :
            Cardinality(participants) = session.threshold + 1
                => CombinedPartialDecryptions(session.id, participants) = session.result.val
C19_Witness ==
    /\ EncryptionCompleted
    /\ session.threshold = 1
    /\ \A n \in Nodes : HasShare(n, session.id)
    /\ CombinedPartialDecryptions(session.id, {1, 2}) = session.result.val

\* C20: when a peer that takes part in a live session disconnects, the
\* session observes NodeDisconnected and ends in state Failed; when the peer
\* of a decryption is lost, also after the partial decryptions were
\* requested, the initiator's caller receives an error and no result.
SessionLostPeer ==
    /\ session.kind \in {"encryption", "decryption"}
    /\ session.disconnected # {}
CallLostPeer == returned.ok /\ returned.val.disconnected # {}
PeerIsLost ==
    /\ session.kind \in {"encryption", "decryption"}
    /\ session.state \notin {"Finished", "Failed"}
    /\ session'.disconnected # {}
C20_DisconnectFailsSession ==
    /\ [](SessionLostPeer =>
             /\ session.state = "Failed"
             /\ session.result = NodeDisconnected)
    /\ [](CallLostPeer =>
             /\ ~returned.val.result.ok
             /\ returned.val.result = from_cluster_error(NodeDisconnected.err)
             /\ ~returned.val.key.ok)
    /\ [][PeerIsLost => (session'.state = "Failed" /\ session'.result = NodeDisconnected)]_vars

\* C20: document_key returned after a peer of its decryption session was
\* lost while the partial decryptions were awaited.
\* With threshold 1 the third message of the call is
\* RequestPartialDecryption.
C20_Witness ==
    /\ ReturnedFrom("document_key")
    /\ returned.val.disconnected # {}
    /\ key_storage[returned.val.node][returned.val.document].threshold = 1
    /\ messages_sent = 3
    /\ Failed(returned.val.result, "Internal")

\* ------------------------------------------------------------------------
\* Properties of the encrypted frame and of the link key.

\* The ciphertext ECIES gives for the payload of the serialized frame with
\* the ephemeral secret r.
PayloadCiphertext(r) ==
    encrypt_single_message(shared_key.val.public, FramePayload(serialized.val), r)

\* C27: encrypt_message leaves the header's version and kind as they were
\* in the cleartext frame and changes only the size field, which it sets to
\* the length of the ciphertext; the bytes after the header are the ECIES
\* encryption of the cleartext payload only.
C27_EncryptChangesOnlySize ==
    encrypted.ok =>
        /\ VecAt(encrypted.val, 1) = VecAt(serialized.val, 1)
        /\ VecAt(encrypted.val, 2) = VecAt(serialized.val, 2)
        /\ \E r \in 1..MaxEphemeral :
            /\ PayloadCiphertext(r).ok
            /\ FramePayload(encrypted.val) = PayloadCiphertext(r).val
            /\ FrameSize(encrypted.val) = VecLen(PayloadCiphertext(r).val)
        /\ VecLen(encrypted.val) = MESSAGE_HEADER_SIZE + FrameSize(encrypted.val)

\* C27 witness: a Complaint with a payload that is not empty was encrypted.
C27_Witness ==
    /\ encrypted.ok
    /\ message.val.variant = "Complaint"
    /\ VecLen(message.val.payload) > 0
    /\ VecAt(encrypted.val, 2) = 54
    /\ FrameSize(encrypted.val) = FrameSize(serialized.val) + 2

\* C28: the 65535-byte limit is enforced a second time on the ciphertext.
\* A message that serialize_message accepts but whose ECIES ciphertext is
\* longer than 65535 bytes makes encrypt_message fail with InvalidMessage
\* and nothing is written; a ciphertext of up to 65535 bytes is accepted;
\* no encrypted frame is emitted whose size field differs from the length
\* of its ciphertext.
EncryptionAttempted == serialized.ok /\ ~IsNothing(encrypted)
C28_CiphertextLimit ==
    /\ EncryptionAttempted =>
          IF VecLen(PayloadCiphertext(1).val) > 65535
          THEN /\ VecLen(FramePayload(serialized.val)) <= 65535
               /\ Failed(encrypted, "InvalidMessage")
               /\ IsNothing(wire)
          ELSE encrypted.ok
    /\ (wire.ok /\ wire.val.encrypted) =>
          /\ wire.val.bytes = encrypted.val
          /\ FrameSize(wire.val.bytes) = VecLen(FramePayload(wire.val.bytes))

\* C28 witness: a serialized payload of 65534 bytes, whose ciphertext has
\* 65536 bytes, was refused by encrypt_message.
C28_Witness ==
    /\ EncryptionAttempted
    /\ VecLen(FramePayload(serialized.val)) = 65534
    /\ VecLen(PayloadCiphertext(1).val) = 65536
    /\ Failed(encrypted, "InvalidMessage")

\* The peer's end of the link: the secrets whose public key this end
\* learned in the handshake, and the key the peer derives from one of them
\* and this end's public key.
PeerSecrets == {s \in Secrets : other_public.ok /\ ScalarMul(s, generator) = other_public.val}
PeerSharedKey(peer_secret) ==
    compute_shared_key(peer_secret, KeyPair_from_secret_slice(self_secret).val.public)

\* C30: the link key is symmetric. For the key pair of this end and the
\* key pair of its peer, compute_shared_key(self secret, peer public) and
\* compute_shared_key(peer secret, self public) return the same key pair
\* (or both fail), and the payload of a frame this end encrypted with its
\* key decrypts at the peer with the peer's key to the cleartext payload.
C30_LinkKeyIsSymmetric ==
    \A peer_secret \in PeerSecrets :
        /\ PeerSharedKey(peer_secret).ok = shared_key.ok
        /\ shared_key.ok => PeerSharedKey(peer_secret).val = shared_key.val
        /\ encrypted.ok =>
              decrypt_message(PeerSharedKey(peer_secret).val, FramePayload(encrypted.val))
                  = Ok(FramePayload(serialized.val))

\* C30 witness: the two ends hold different key pairs, and the peer
\* decrypts a frame with a payload that is not empty.
C30_Witness ==
    /\ encrypted.ok
    /\ VecLen(message.val.payload) > 0
    /\ \E peer_secret \in PeerSecrets :
        /\ peer_secret # self_secret
        /\ PeerSharedKey(peer_secret).val = shared_key.val
        /\ decrypt_message(PeerSharedKey(peer_secret).val, FramePayload(encrypted.val))
              = Ok(FramePayload(serialized.val))

\* ------------------------------------------------------------------------
\* Threads that call one KeyServerImpl at the same time (key_server.rs).
\* A call locks data to ask the cluster for a session; the guard is a
\* temporary of that statement. The session runs on the event loop thread,
\* which was given the configuration and never the mutex.

Threads == 1..MaxThread
\* The mutex when no thread holds its guard.
unlocked == 0
FacadeOperations == {"generate_document_key", "document_key", "document_key_shadow"}
SessionKindOf(op) == IF op = "generate_document_key" THEN "encryption" ELSE "decryption"
ThreadSession(t) ==
    SessionEntry(0, SessionKindOf(thread_call[t].val.op), thread_call[t].val.document)

\* Whether the guard of self.data.lock() is dropped when the statement that
\* creates the session ends, before wait() is called.
lock_guard_kept_in_scope == FALSE
lock_guard_dropped_before_wait == TRUE

RECURSIVE remove_session(_, _)
remove_session(live, entry) ==
    IF live = <<>> THEN <<>>
    ELSE IF Head(live) = entry THEN Tail(live)
    ELSE <<Head(live)>> \o remove_session(Tail(live), entry)

InitThreads ==
    /\ mutex = unlocked
    /\ thread_pc = [t \in Threads |-> "idle"]
    /\ thread_call = [t \in Threads |-> Nothing]
    /\ thread_returned = [t \in Threads |-> Nothing]
    /\ live_sessions = <<>>
    /\ LinkUnused
    /\ FacadeUnused
    /\ CoresUnused
    /\ SessionsUnused
    /\ ConnectionsUnused

\* A thread calls a facade operation and comes to self.data.lock().
ThreadCall(t) ==
    /\ thread_pc[t] = "idle"
    /\ \E op \in FacadeOperations, document \in Documents :
        thread_call' = [thread_call EXCEPT ![t] = Ok([op |-> op, document |-> document])]
    /\ thread_pc' = [thread_pc EXCEPT ![t] = "lock"]
    /\ thread_returned' = [thread_returned EXCEPT ![t] = Nothing]
    /\ UNCHANGED <<mutex, live_sessions, linkVars, facadeVars, coreVars, sessionVars,
                   connectionVars>>

\* self.data.lock() returns the guard.
ThreadLock(t) ==
    /\ thread_pc[t] = "lock"
    /\ mutex = unlocked
    /\ mutex' = t
    /\ thread_pc' = [thread_pc EXCEPT ![t] = "locked"]
    /\ UNCHANGED <<thread_call, thread_returned, live_sessions, linkVars, facadeVars, coreVars, sessionVars,
                   connectionVars>>

\* .cluster.new_encryption_session(..)? or .cluster.new_decryption_session(..)?
\* under the guard; the statement ends.
ThreadNewSession(t) ==
    /\ thread_pc[t] = "locked"
    /\ LET created == create_session(live_sessions, ThreadSession(t)) IN
       IF created.ok
       THEN /\ live_sessions' = created.val
            /\ thread_pc' = [thread_pc EXCEPT ![t] = "waiting"]
            /\ mutex' = IF lock_guard_dropped_before_wait THEN unlocked ELSE mutex
            /\ UNCHANGED <<thread_call, thread_returned>>
       ELSE /\ thread_returned' =
                   [thread_returned EXCEPT ![t] = from_cluster_error(created.err)]
            /\ thread_pc' = [thread_pc EXCEPT ![t] = "idle"]
            /\ thread_call' = [thread_call EXCEPT ![t] = Nothing]
            /\ mutex' = unlocked
            /\ UNCHANGED live_sessions
    /\ UNCHANGED <<linkVars, facadeVars, coreVars, sessionVars,
                   connectionVars>>

\* The event loop completes the session a thread waits for, with a key or
\* with an error.
SessionCompletes(t) ==
    /\ thread_pc[t] = "waiting"
    /\ \E result \in {Ok(thread_call[t].val.document), NodeDisconnected} :
        thread_returned' = [thread_returned EXCEPT ![t] = result]
    /\ live_sessions' = remove_session(live_sessions, ThreadSession(t))
    /\ thread_pc' = [thread_pc EXCEPT ![t] = "woken"]
    /\ UNCHANGED <<mutex, thread_call, linkVars, facadeVars, coreVars, sessionVars,
                   connectionVars>>

\* wait() returns and the call returns to the thread.
ThreadReturn(t) ==
    /\ thread_pc[t] = "woken"
    /\ thread_returned' =
           [thread_returned EXCEPT ![t] = IF thread_returned[t].ok THEN thread_returned[t]
                                          ELSE from_cluster_error(thread_returned[t].err)]
    /\ thread_pc' = [thread_pc EXCEPT ![t] = "idle"]
    /\ thread_call' = [thread_call EXCEPT ![t] = Nothing]
    /\ mutex' = IF mutex = t THEN unlocked ELSE mutex
    /\ UNCHANGED <<live_sessions, linkVars, facadeVars, coreVars, sessionVars,
                   connectionVars>>

\* The steps of a call in progress.
ThreadProgress ==
    \E t \in Threads :
        ThreadLock(t) \/ ThreadNewSession(t) \/ SessionCompletes(t) \/ ThreadReturn(t)

NextThreads ==
    \/ \E t \in Threads : ThreadCall(t)
    \/ \E t \in Threads : ThreadLock(t)
    \/ \E t \in Threads : ThreadNewSession(t)
    \/ \E t \in Threads : SessionCompletes(t)
    \/ \E t \in Threads : ThreadReturn(t)

SpecThreads == InitThreads /\ [][NextThreads]_vars

\* C21: the facade's mutex is held only while a session is being created,
\* never while the caller blocks on the session's completion; while one
\* thread is blocked in wait(), a second thread that calls the facade can
\* acquire the mutex and create its own session; whenever a call is in
\* progress some call can take a step.
C21_MutexHeldOnlyToCreate ==
    /\ \A t \in Threads : mutex = t <=> thread_pc[t] = "locked"
    /\ \A t1, t2 \in Threads :
          (/\ thread_pc[t1] = "waiting"
           /\ thread_pc[t2] = "lock"
           /\ \A t3 \in Threads : thread_pc[t3] # "locked")
              => ENABLED ThreadLock(t2)
    /\ (\E t \in Threads : thread_pc[t] # "idle") => ENABLED ThreadProgress

\* C21 witness: thread 2 holds the mutex and creates its session while
\* thread 1 is blocked in wait().
C21_Witness ==
    /\ thread_pc[1] = "waiting"
    /\ thread_pc[2] = "locked"
    /\ mutex = 2
    /\ create_session(live_sessions, ThreadSession(2)).ok

\* ------------------------------------------------------------------------
\* KeyServerCore::new, the event loop thread it spawns, and Drop
\* (key_server.rs), for the key servers of the nodes.

\* The one-shot stop handle: held by the core, and the signals sent on it.
StopHandle(state, sent) == [state |-> state, sent |-> sent]
\* The future `stopped` resolves when a signal was sent or the handle was
\* dropped (cancelled).
stopped(handle) == handle.state \in {"sent", "dropped"}

\* impl Drop for KeyServerCore: the order of its two statements.
drop_joining_first == <<"join", "close">>
drop_statements == <<"close", "join">>

\* What the thread reports through tx.
EventLoopError == Internal(<<"error initializing event loop">>)
ClusterOutcomes == {Ok("cluster_client"), from_cluster_error(Err("Io", <<>>).err)}

InitCores ==
    /\ core_pc = [n \in Nodes |-> "new"]
    /\ loop_pc = [n \in Nodes |-> "not_spawned"]
    /\ init_channel = [n \in Nodes |-> Nothing]
    /\ stop_signal = [n \in Nodes |-> StopHandle("none", 0)]
    /\ join_handle = [n \in Nodes |-> "none"]
    /\ LinkUnused
    /\ FacadeUnused
    /\ ThreadsUnused
    /\ SessionsUnused
    /\ ConnectionsUnused

\* KeyServerCore::new creates the stop handle and the channel, spawns the
\* thread and blocks in rx.recv().
SpawnEventLoop(n) ==
    /\ core_pc[n] = "new"
    /\ core_pc' = [core_pc EXCEPT ![n] = "recv"]
    /\ loop_pc' = [loop_pc EXCEPT ![n] = "core_new"]
    /\ stop_signal' = [stop_signal EXCEPT ![n] = StopHandle("held", 0)]
    /\ join_handle' = [join_handle EXCEPT ![n] = "held"]
    /\ UNCHANGED <<init_channel, linkVars, facadeVars, threadVars, sessionVars,
                   connectionVars>>

\* The thread: Core::new() fails, the error is sent and the thread returns;
\* or the event loop exists.
EventLoopCoreNew(n) ==
    /\ loop_pc[n] = "core_new"
    /\ \/ /\ init_channel' = [init_channel EXCEPT ![n] = EventLoopError]
          /\ loop_pc' = [loop_pc EXCEPT ![n] = "exited"]
       \/ /\ loop_pc' = [loop_pc EXCEPT ![n] = "cluster_new"]
          /\ UNCHANGED init_channel
    /\ UNCHANGED <<core_pc, stop_signal, join_handle, linkVars, facadeVars, threadVars, sessionVars,
                   connectionVars>>

\* The thread: the cluster is created and run; its client or its error is
\* sent, and the thread goes on to el.run in both cases.
EventLoopClusterNew(n) ==
    /\ loop_pc[n] = "cluster_new"
    /\ \E cluster_client \in ClusterOutcomes :
        init_channel' = [init_channel EXCEPT ![n] = cluster_client]
    /\ loop_pc' = [loop_pc EXCEPT ![n] = "run"]
    /\ UNCHANGED <<core_pc, stop_signal, join_handle, linkVars, facadeVars, threadVars, sessionVars,
                   connectionVars>>

\* The thread: el.run(futures::empty().select(stopped)) returns when
\* stopped resolves, and the thread ends.
EventLoopRun(n) ==
    /\ loop_pc[n] = "run"
    /\ stopped(stop_signal[n])
    /\ loop_pc' = [loop_pc EXCEPT ![n] = "exited"]
    /\ UNCHANGED <<core_pc, init_channel, stop_signal, join_handle, linkVars, facadeVars,
                   threadVars, sessionVars, connectionVars>>

\* rx.recv()??: the core is built around the cluster client, or new
\* returns the error and its locals, the stop handle and the join handle
\* among them, are dropped.
ReceiveOutcome(n) ==
    /\ core_pc[n] = "recv"
    /\ ~IsNothing(init_channel[n])
    /\ IF init_channel[n].ok
       THEN /\ core_pc' = [core_pc EXCEPT ![n] = "constructed"]
            /\ UNCHANGED <<stop_signal, join_handle>>
       ELSE /\ core_pc' = [core_pc EXCEPT ![n] = "failed"]
            /\ stop_signal' = [stop_signal EXCEPT ![n] = StopHandle("dropped", 0)]
            /\ join_handle' = [join_handle EXCEPT ![n] = "detached"]
    /\ UNCHANGED <<loop_pc, init_channel, linkVars, facadeVars, threadVars, sessionVars,
                   connectionVars>>

\* The owner drops the core: drop() begins.
DropCore(n) ==
    /\ core_pc[n] = "constructed"
    /\ core_pc' = [core_pc EXCEPT ![n] = "drop_1"]
    /\ UNCHANGED <<loop_pc, init_channel, stop_signal, join_handle, linkVars, facadeVars,
                   threadVars, sessionVars, connectionVars>>

\* One statement of drop(): self.close.take().map(|v| v.send(())), or
\* self.handle.take().map(|h| h.join()), which blocks until the thread ended.
DropStatement(n) ==
    /\ core_pc[n] \in {"drop_1", "drop_2"}
    /\ LET statement == drop_statements[IF core_pc[n] = "drop_1" THEN 1 ELSE 2] IN
       IF statement = "close"
       THEN /\ stop_signal' =
                   [stop_signal EXCEPT ![n] =
                       IF stop_signal[n].state = "held"
                       THEN StopHandle("sent", stop_signal[n].sent + 1)
                       ELSE stop_signal[n]]
            /\ UNCHANGED join_handle
       ELSE /\ loop_pc[n] = "exited"
            /\ join_handle' = [join_handle EXCEPT ![n] = "joined"]
            /\ UNCHANGED stop_signal
    /\ core_pc' = [core_pc EXCEPT ![n] = IF core_pc[n] = "drop_1" THEN "drop_2" ELSE "dropped"]
    /\ UNCHANGED <<loop_pc, init_channel, linkVars, facadeVars, threadVars, sessionVars,
                   connectionVars>>

\* The steps that go on by themselves: those of the thread, of new, and of
\* a drop that has begun.
EventLoopStep(n) == EventLoopCoreNew(n) \/ EventLoopClusterNew(n) \/ EventLoopRun(n)
CoreStep(n) == SpawnEventLoop(n) \/ ReceiveOutcome(n) \/ DropStatement(n)

NextCores ==
    \/ \E n \in Nodes : SpawnEventLoop(n)
    \/ \E n \in Nodes : EventLoopCoreNew(n)
    \/ \E n \in Nodes : EventLoopClusterNew(n)
    \/ \E n \in Nodes : EventLoopRun(n)
    \/ \E n \in Nodes : ReceiveOutcome(n)
    \/ \E n \in Nodes : DropCore(n)
    \/ \E n \in Nodes : DropStatement(n)

SpecCores ==
    /\ InitCores
    /\ [][NextCores]_vars
    /\ \A n \in Nodes : WF_vars(EventLoopStep(n)) /\ WF_vars(CoreStep(n))

\* C29: the event loop thread ends once the stop handle is signalled or
\* dropped; dropping a core sends the stop signal once and joins the
\* thread, and the join returns; when KeyServerCore::new returns an error
\* the thread it spawned ends as well; new returns only after the thread
\* has reported the outcome of the initialisation.
Returned_new(n) == core_pc[n] \notin {"new", "recv"}
C29_EventLoopThreadTerminates ==
    /\ [](\A n \in Nodes :
            /\ Returned_new(n) =>
                  /\ ~IsNothing(init_channel[n])
                  /\ init_channel[n].ok <=> core_pc[n] # "failed"
            /\ stop_signal[n].sent <= 1
            /\ core_pc[n] = "dropped" =>
                  /\ stop_signal[n] = StopHandle("sent", 1)
                  /\ join_handle[n] = "joined"
                  /\ loop_pc[n] = "exited"
            /\ core_pc[n] = "failed" =>
                  loop_pc[n] = "exited" \/ stopped(stop_signal[n]))
    /\ \A n \in Nodes : stopped(stop_signal[n]) ~> loop_pc[n] = "exited"
    /\ \A n \in Nodes : core_pc[n] = "drop_1" ~> core_pc[n] = "dropped"
    /\ \A n \in Nodes : core_pc[n] = "failed" ~> loop_pc[n] = "exited"
    /\ \A n \in Nodes : core_pc[n] = "recv" ~> Returned_new(n)

\* C29 witness: one core was dropped and its thread joined; the
\* construction of another failed in the cluster's initialisation and its
\* thread, which had gone on to run the event loop, has ended.
C29_Witness ==
    /\ core_pc[0] = "dropped"
    /\ join_handle[0] = "joined"
    /\ core_pc[1] = "failed"
    /\ init_channel[1] # EventLoopError
    /\ join_handle[1] = "detached"
    /\ loop_pc[1] = "exited"

\* ------------------------------------------------------------------------
\* One encryption or decryption session as the state machines of its
\* participants, with the messages between them, errors and deadlines.

\* How many errors and stale messages strike one session.
MaxFaults == 1

EncryptionStates ==
    <<"WaitingForInitializationConfirm", "WaitingForInitializationComplete",
      "WaitingForKeysDissemination", "WaitingForComplaints", "WaitingForKeysShare",
      "Finished">>
DecryptionStates ==
    <<"WaitingForInitializationConfirm", "WaitingForPartialDecryptionRequests",
      "WaitingForPartialDecryption", "Finished">>
StatesOf(kind) == IF kind = "Encryption" THEN EncryptionStates ELSE DecryptionStates

\* The place of a state in its session's order; a node that has no session
\* yet stands before the first, a failed session after the last.
Rank(kind, state) ==
    IF state = "NoSession" THEN 0
    ELSE IF state = "Failed" THEN Len(StatesOf(kind)) + 1
    ELSE CHOOSE i \in 1..Len(StatesOf(kind)) : StatesOf(kind)[i] = state

Live(state) == state \notin {"NoSession", "Finished", "Failed"}

\* The messages of a session: the state that expects each of them, and
\* the order in which a node sends them to one peer.
InitiateKinds == {"InitializeSession", "InitializeDecryptionSession"}
ErrorKinds == {"SessionError", "DecryptionSessionError"}
ExpectedIn(msg_kind) ==
    CASE msg_kind \in {"ConfirmInitialization", "ConfirmDecryptionInitialization"} ->
             "WaitingForInitializationConfirm"
      [] msg_kind = "CompleteInitialization" -> "WaitingForInitializationComplete"
      [] msg_kind = "KeysDissemination" -> "WaitingForKeysDissemination"
      [] msg_kind = "PublicKeyShare" -> "WaitingForKeysShare"
      [] msg_kind = "RequestPartialDecryption" -> "WaitingForPartialDecryptionRequests"
      [] msg_kind = "PartialDecryption" -> "WaitingForPartialDecryption"
SendOrder(msg_kind) ==
    CASE msg_kind \in InitiateKinds -> 0
      [] msg_kind \in {"ConfirmInitialization", "ConfirmDecryptionInitialization"} -> 1
      [] msg_kind \in {"CompleteInitialization", "RequestPartialDecryption"} -> 2
      [] msg_kind \in {"KeysDissemination", "PartialDecryption"} -> 3
      [] msg_kind = "PublicKeyShare" -> 4
      [] msg_kind \in ErrorKinds -> 5
StepMessages(kind) ==
    IF kind = "Encryption"
    THEN {"ConfirmInitialization", "CompleteInitialization", "KeysDissemination",
          "PublicKeyShare"}
    ELSE {"ConfirmDecryptionInitialization", "RequestPartialDecryption", "PartialDecryption"}

SessionMessage(msg_kind, from, to, error) ==
    [kind |-> msg_kind, from |-> from, to |-> to, error |-> error]
Others(n) == session_config.participants \ {n}
broadcast(msg_kind, n, error) ==
    {SessionMessage(msg_kind, n, p, error) : p \in Others(n)}
ErrorMessageOf(kind) == IF kind = "Encryption" THEN "SessionError" ELSE "DecryptionSessionError"

\* A step of a session is complete when every other participant's message
\* of that step is in.
collected_any(received, expected) == received # {}
collected_all(received, expected) == received = expected

\* What a session answers to a message that its state does not allow:
\* a message of a later step is rescheduled, a message of an earlier step
\* is a failure of the peer or of the communication.
answer_never_too_early(kind, state, msg_kind) ==
    IF Rank(kind, ExpectedIn(msg_kind)) = Rank(kind, state)
    THEN "Ok"
    ELSE "InvalidStateForRequest"
state_check(kind, state, msg_kind) ==
    IF Rank(kind, ExpectedIn(msg_kind)) = Rank(kind, state)
    THEN "Ok"
    ELSE IF Rank(kind, ExpectedIn(msg_kind)) > Rank(kind, state)
    THEN "TooEarlyForRequest"
    ELSE "InvalidStateForRequest"

NoSessionError == [kind |-> "none", origin |-> "none"]
SessionOutcome(state, error, received, out, early) ==
    [state |-> state, error |-> error, received |-> received, out |-> out, early |-> early]
Unchanged(n) ==
    SessionOutcome(session_state[n], session_error[n], session_received[n], {}, {})

\* An error observed locally: recorded as the terminal state and broadcast
\* to the other participants.
keep_state_on_error(n, error_kind) ==
    SessionOutcome(session_state[n], session_error[n], session_received[n],
                   broadcast(ErrorMessageOf(session_config.kind), n, error_kind), {})
abort(n, error_kind) ==
    SessionOutcome("Failed", [kind |-> error_kind, origin |-> "local"], session_received[n],
                   broadcast(ErrorMessageOf(session_config.kind), n, error_kind), {})

\* A received error ends the session with the received kind.
note_session_error(n, msg) == Unchanged(n)
on_session_error(n, msg) ==
    SessionOutcome("Failed", [kind |-> msg.error, origin |-> "received"],
                   session_received[n], {}, {})

\* A message that the state expects.
accept(n, msg) ==
    LET state == session_state[n]
        received == session_received[n] \cup {msg.from}
        complete == collected_all(received, Others(n))
        waiting == SessionOutcome(state, NoSessionError, received, {}, {})
    IN  IF session_config.kind = "Encryption"
        THEN CASE state = "WaitingForInitializationConfirm" ->
                      IF complete
                      THEN SessionOutcome("WaitingForKeysDissemination", NoSessionError, {},
                                          broadcast("CompleteInitialization", n, "")
                                              \cup broadcast("KeysDissemination", n, ""), {})
                      ELSE waiting
               [] state = "WaitingForInitializationComplete" ->
                      SessionOutcome("WaitingForKeysDissemination", NoSessionError, {},
                                     broadcast("KeysDissemination", n, ""), {})
               [] state = "WaitingForKeysDissemination" ->
                      IF complete
                      THEN SessionOutcome("WaitingForComplaints", NoSessionError, {}, {}, {})
                      ELSE waiting
               [] state = "WaitingForKeysShare" ->
                      IF complete
                      THEN SessionOutcome("Finished", NoSessionError, received, {}, {})
                      ELSE waiting
        ELSE CASE state = "WaitingForInitializationConfirm" ->
                      IF complete
                      THEN SessionOutcome("WaitingForPartialDecryption", NoSessionError, {},
                                          broadcast("RequestPartialDecryption", n, ""), {})
                      ELSE waiting
               [] state = "WaitingForPartialDecryptionRequests" ->
                      SessionOutcome("Finished", NoSessionError, received,
                                     {SessionMessage("PartialDecryption", n, msg.from, "")},
                                     {})
               [] state = "WaitingForPartialDecryption" ->
                      IF complete
                      THEN SessionOutcome("Finished", NoSessionError, received, {}, {})
                      ELSE waiting

\* The session manager's dispatch of a message and the session's answer.
process_message(n, msg) ==
    LET state == session_state[n] IN
    IF msg.kind \in InitiateKinds
    THEN IF state = "NoSession"
         THEN SessionOutcome(StatesOf(session_config.kind)[2], NoSessionError, {},
                             {SessionMessage(IF session_config.kind = "Encryption"
                                             THEN "ConfirmInitialization"
                                             ELSE "ConfirmDecryptionInitialization",
                                             n, msg.from, "")}, {})
         ELSE Unchanged(n)
    ELSE IF ~Live(state)
    THEN Unchanged(n)
    ELSE IF msg.kind \in ErrorKinds
    THEN on_session_error(n, msg)
    ELSE CASE state_check(session_config.kind, state, msg.kind) = "Ok" -> accept(n, msg)
           [] state_check(session_config.kind, state, msg.kind) = "TooEarlyForRequest" ->
                  SessionOutcome(state, session_error[n], session_received[n], {}, {msg})
           [] OTHER -> abort(n, state_check(session_config.kind, state, msg.kind))

\* The outcome takes effect at node n; the messages it sends go out, each
\* for the first and only time. A message for a session that has ended is
\* dropped by the session manager: it leaves the network without effect.
Dropped(messages) ==
    {msg \in messages : session_state'[msg.to] \in {"Finished", "Failed"}}
Apply(n, outcome, consumed) ==
    /\ session_state' = [session_state EXCEPT ![n] = outcome.state]
    /\ session_error' = [session_error EXCEPT ![n] = outcome.error]
    /\ session_received' = [session_received EXCEPT ![n] = outcome.received]
    /\ network' = ((network \ consumed) \cup outcome.out)
                       \ Dropped((network \ consumed) \cup outcome.out)
    /\ sent_messages' = sent_messages \cup outcome.out
    /\ too_early' =
           [too_early EXCEPT ![n] =
               IF Live(outcome.state) THEN (@ \ consumed) \cup outcome.early ELSE {}]
    /\ UNCHANGED <<session_config, caller, linkVars, facadeVars, threadVars, coreVars,
                   connectionVars>>

\* The sessions of the first node: an encryption session of all nodes, and
\* the decryption sessions of it and one or two others.
Sessions ==
    {[kind |-> "Encryption", master |-> 0, participants |-> Nodes]}
        \cup {[kind |-> "Decryption", master |-> 0, participants |-> chosen] :
                 chosen \in {R \in SUBSET Nodes : 0 \in R /\ Cardinality(R) >= 2}}

\* The initiator has created the session and sent the initiate messages.
InitSessions ==
    /\ session_config \in Sessions
    /\ session_state =
           [n \in Nodes |->
               IF n = session_config.master THEN "WaitingForInitializationConfirm" ELSE "NoSession"]
    /\ session_error = [n \in Nodes |-> NoSessionError]
    /\ session_received = [n \in Nodes |-> {}]
    /\ network =
           {SessionMessage(IF session_config.kind = "Encryption"
                           THEN "InitializeSession"
                           ELSE "InitializeDecryptionSession", session_config.master, p, "") :
               p \in session_config.participants \ {session_config.master}}
    /\ sent_messages = network
    /\ too_early = [n \in Nodes |-> {}]
    /\ faults = 0
    /\ caller = "waiting"
    /\ LinkUnused
    /\ FacadeUnused
    /\ ThreadsUnused
    /\ CoresUnused
    /\ ConnectionsUnused

\* A message arrives: those of one peer arrive in the order they were sent.
DeliverMessage(msg) ==
    /\ msg \in network
    /\ \A earlier \in network :
           earlier.from = msg.from /\ earlier.to = msg.to
               => SendOrder(earlier.kind) >= SendOrder(msg.kind)
    /\ Apply(msg.to, process_message(msg.to, msg), {msg})
    /\ UNCHANGED faults

\* A rescheduled message is processed again once the session has moved on.
RescheduledMessage(n) ==
    \E msg \in too_early[n] :
        /\ Live(session_state[n])
        /\ state_check(session_config.kind, session_state[n], msg.kind) # "TooEarlyForRequest"
        /\ Apply(n, process_message(n, msg), {msg})
        /\ UNCHANGED faults

\* A message of an earlier step arrives once more: the communication
\* failed or the peer misbehaves.
StaleMessage(n) ==
    \E from \in Others(n), msg_kind \in StepMessages(session_config.kind) :
        /\ Live(session_state[n])
        /\ Rank(session_config.kind, ExpectedIn(msg_kind)) < Rank(session_config.kind, session_state[n])
        /\ faults < MaxFaults
        /\ faults' = faults + 1
        /\ Apply(n, process_message(n, SessionMessage(msg_kind, from, n, "")), {})

\* The shares are verified and no complaint stays open: the node
\* publishes its public share.
ComplaintsSettled(n) ==
    /\ session_state[n] = "WaitingForComplaints"
    /\ Apply(n, SessionOutcome("WaitingForKeysShare", NoSessionError, {},
                               broadcast("PublicKeyShare", n, ""), {}), {})
    /\ UNCHANGED faults

\* A node observes a fatal error in its session.
LocalErrors == {"InvalidMessage"}
LocalError(n) ==
    \E error_kind \in LocalErrors :
        /\ Live(session_state[n])
        /\ faults < MaxFaults
        /\ faults' = faults + 1
        /\ Apply(n, abort(n, error_kind), {})

\* A session progresses while a message for it is on its way or waits to
\* be processed again, or while it has a step of its own to take.
Progressing(n) ==
    \/ \E msg \in network : msg.to = n
    \/ \E msg \in too_early[n] :
           state_check(session_config.kind, session_state[n], msg.kind) # "TooEarlyForRequest"
    \/ session_state[n] = "WaitingForComplaints"

\* The deadline of a session that does not progress passes, and the
\* background tick aborts it.
SessionTimeout(n) ==
    /\ Live(session_state[n])
    /\ ~Progressing(n)
    /\ Apply(n, abort(n, "TooEarlyForRequest"), {})
    /\ UNCHANGED faults

\* The initiator's session has ended: the completion is published and the
\* blocked call returns.
CallerReturns ==
    /\ caller = "waiting"
    /\ ~Live(session_state[session_config.master])
    /\ caller' = "returned"
    /\ UNCHANGED <<session_config, session_state, session_error, session_received, network,
                   sent_messages, too_early, faults, linkVars, facadeVars, threadVars, coreVars,
                   connectionVars>>

NextSessions ==
    \/ \E msg \in network : DeliverMessage(msg)
    \/ \E n \in Nodes : RescheduledMessage(n)
    \/ \E n \in Nodes : StaleMessage(n)
    \/ \E n \in Nodes : ComplaintsSettled(n)
    \/ \E n \in Nodes : LocalError(n)
    \/ \E n \in Nodes : SessionTimeout(n)
    \/ CallerReturns

SpecSessions == InitSessions /\ [][NextSessions]_vars

\* The event loop of a node goes on processing what is there for its
\* session, its timers included, and a published completion wakes the caller.
SessionStep(n) ==
    \/ \E msg \in network : msg.to = n /\ DeliverMessage(msg)
    \/ RescheduledMessage(n)
    \/ ComplaintsSettled(n)
    \/ SessionTimeout(n)

SpecSessionsLive ==
    /\ SpecSessions
    /\ \A n \in Nodes : WF_vars(SessionStep(n))
    /\ WF_vars(CallerReturns)

\* C26: a session that does not progress is aborted when its deadline
\* passes, so every live session eventually is Finished or Failed and the
\* facade call blocked on the session eventually returns; no message is
\* put on the network a second time.
C26_SessionsEndAndNothingIsRetried ==
    /\ \A n \in Nodes : Live(session_state[n]) ~> session_state[n] \in {"Finished", "Failed"}
    /\ (caller = "waiting") ~> (caller = "returned")
    /\ [][\A msg \in network' \ network : msg \notin sent_messages]_vars

\* C26 witness: a session that waited for a message that never came was
\* aborted by its deadline, and the caller has returned.
C26_Witness ==
    /\ \E n \in Nodes :
           /\ session_state[n] = "Failed"
           /\ session_error[n] = [kind |-> "TooEarlyForRequest", origin |-> "local"]
    /\ caller = "returned"

\* A session moves forward in the order of its states, or to Failed, and
\* stays in Finished and in Failed.
MovesForward ==
    \A n \in Nodes :
        /\ Rank(session_config.kind, session_state'[n])
               >= Rank(session_config.kind, session_state[n])
        /\ session_state[n] \in {"Finished", "Failed"} => session_state'[n] = session_state[n]

ReceivedErrorFails ==
    \A msg \in network :
        msg.kind \in ErrorKinds /\ Live(session_state[msg.to]) /\ DeliverMessage(msg)
            => /\ session_state'[msg.to] = "Failed"
               /\ session_error'[msg.to] = [kind |-> msg.error, origin |-> "received"]

\* C23: a decryption session only moves forward through its states or to
\* Failed; the initiator's session is Finished only when the partial
\* decryptions of all chosen participants are collected (a participant's
\* own session only when its partial decryption is sent), and a
\* DecryptionSessionError received from a participant moves the session to
\* Failed with the reported error.
C23_DecryptionFinishesWithAllPartials ==
    /\ [][session_config.kind = "Decryption" => MovesForward /\ ReceivedErrorFails]_vars
    /\ [](session_config.kind = "Decryption" =>
            \A n \in session_config.participants :
                session_state[n] = "Finished" =>
                    IF n = session_config.master
                    THEN session_received[n] \cup {n} = session_config.participants
                    ELSE SessionMessage("PartialDecryption", n, session_config.master, "")
                             \in sent_messages)

\* C23 witness: the decryption session of three participants is Finished at
\* the initiator with both partial decryptions of the others collected.
C23_Witness ==
    /\ session_config.kind = "Decryption"
    /\ session_config.participants = Nodes
    /\ session_state[session_config.master] = "Finished"
    /\ session_received[session_config.master] = Nodes \ {session_config.master}
    /\ \A n \in Nodes : session_state[n] = "Finished"

\* An error observed locally is the terminal state of the session and has
\* gone out to every other participant; every error message on the network
\* is the recorded error of its sender.
LocalErrorRecordedAndBroadcast ==
    /\ \A n \in Nodes :
           session_error[n].origin = "local" =>
               /\ session_state[n] = "Failed"
               /\ broadcast(ErrorMessageOf(session_config.kind), n, session_error[n].kind)
                      \subseteq sent_messages
    /\ \A msg \in sent_messages :
           msg.kind \in ErrorKinds =>
               /\ session_state[msg.from] = "Failed"
               /\ session_error[msg.from] = [kind |-> msg.error, origin |-> "local"]
BroadcastOnce == \A msg \in network' \ network : msg \notin sent_messages
SomeError == \E n \in Nodes : session_error[n].kind # "none"

MaxDialFailures == 1

\* The peers a node has an established connection with.
connected(n) ==
    {p \in Nodes \ {n} : <<n, p>> \in connections \/ <<p, n>> \in connections}

\* The tie-break: both sides may dial, or only the node with the smaller id.
should_connect_unconditionally(self, peer) == TRUE
should_connect(self, peer) == allow_connecting_to_higher_nodes \/ self < peer

InitConnections ==
    /\ allow_connecting_to_higher_nodes \in BOOLEAN
    /\ dials = {}
    /\ connections = {}
    /\ dial_failures = 0
    /\ LinkUnused
    /\ FacadeUnused
    /\ ThreadsUnused
    /\ CoresUnused
    /\ SessionsUnused

\* A node dials a peer it is not connected with, if the tie-break lets it.
Dial(self, peer) ==
    /\ self # peer
    /\ peer \notin connected(self)
    /\ <<self, peer>> \notin dials
    /\ should_connect(self, peer)
    /\ dials' = dials \cup {<<self, peer>>}
    /\ UNCHANGED <<allow_connecting_to_higher_nodes, connections, dial_failures, linkVars,
                   facadeVars, threadVars, coreVars, sessionVars>>

\* The handshake of a dialled connection succeeds: the connection is
\* established on both sides.
HandshakeDone(self, peer) ==
    /\ <<self, peer>> \in dials
    /\ dials' = dials \ {<<self, peer>>}
    /\ connections' = connections \cup {<<self, peer>>}
    /\ UNCHANGED <<allow_connecting_to_higher_nodes, dial_failures, linkVars, facadeVars,
                   threadVars, coreVars, sessionVars>>

\* The handshake deviates: the connection is closed and the peer can be
\* dialled again after the backoff.
HandshakeFailed(self, peer) ==
    /\ <<self, peer>> \in dials
    /\ dial_failures < MaxDialFailures
    /\ dial_failures' = dial_failures + 1
    /\ dials' = dials \ {<<self, peer>>}
    /\ UNCHANGED <<allow_connecting_to_higher_nodes, connections, linkVars, facadeVars,
                   threadVars, coreVars, sessionVars>>

NextConnections ==
    \/ \E self, peer \in Nodes : Dial(self, peer)
    \/ \E self, peer \in Nodes : HandshakeDone(self, peer)
    \/ \E self, peer \in Nodes : HandshakeFailed(self, peer)

\* The nodes stay up: each goes on dialling and answering handshakes.
SpecConnections ==
    /\ InitConnections
    /\ [][NextConnections]_vars
    /\ \A self, peer \in Nodes :
           WF_vars(Dial(self, peer)) /\ WF_vars(HandshakeDone(self, peer))

\* Nothing is being dialled and nothing is left to dial.
SteadyState == dials = {} /\ ~ENABLED NextConnections

=============================================================================
